---- MODULE Spec2Model ----
(***************************************************************************)
(* A model of history-visualized's query.py: the InformationLoader cache   *)
(* (a context manager that loads a pickled result or produces and persists *)
(* it) and the query layer (tokenization, nation and synonym fan-out).     *)
(*                                                                         *)
(* File paths are sequences of path components, Python objects handed     *)
(* around by the loader are small integers (0 is None), a Python list is   *)
(* a sequence and a Python str is a string, taken apart with SubSeq.       *)
(***************************************************************************)
EXTENDS Integers, Sequences, FiniteSets, Bags, TLC

(***************************************************************************)
(* Bounds.                                                                 *)
(***************************************************************************)
\* Number of InformationLoader objects a run constructs.
NumLoaders == 2
\* The results a producer can return are 1..MaxVal.
MaxVal == 2
\* Depth of nested `with` scopes.
MaxDepth == 2

Loaders == 1..NumLoaders

(***************************************************************************)
(* Python values.                                                          *)
(***************************************************************************)
\* self.data = None (query.py:440).
None == 0
\* What process_function can return.
Values == 1..MaxVal

\* The outcome of one process_function call: it returns a value or raises.
ProducerOutcomes ==
  [raises : {FALSE}, val : Values] \cup [raises : {TRUE}, val : {None}]

(***************************************************************************)
(* The file system: os.path and the pickle files.                          *)
(***************************************************************************)
\* save_location arguments: '', 'flag.pickle', 'data/flag.pickle',
\* 'missing/flag.pickle'.
Locations ==
  { <<>>, <<"flag.pickle">>, <<"data", "flag.pickle">>,
    <<"missing", "flag.pickle">> }

\* The directories that exist.  '' (the dirname of a bare file name) is not
\* among them: os.path.exists('') is False.
ExistingDirs == { <<"data">> }

\* os.path.dirname
Dirname(p) == IF Len(p) = 0 THEN <<>> ELSE SubSeq(p, 1, Len(p) - 1)

\* os.path.exists on a directory path
DirExists(d) == d \in ExistingDirs

FilePaths == { p \in Locations : Len(p) > 0 }

\* File contents: no file; a file left behind by open(..., 'wb') whose
\* pickle.dump did not complete; a complete pickle of obj.
NoFile == [exists |-> FALSE, complete |-> FALSE, obj |-> None]
Truncated == [exists |-> TRUE, complete |-> FALSE, obj |-> None]

\* A dump that stores an empty result instead of the object it is given.
PickleDumpEmpty(obj, ok) ==
  IF ok THEN [exists |-> TRUE, complete |-> TRUE, obj |-> None]
  ELSE Truncated

\* with open(save_location, 'wb') as save_file: pickle.dump(obj, save_file)
\* -- the bytes the file holds afterwards.  open() creates or empties the file
\* before pickle.dump runs; ok is whether pickle.dump completes (it raises
\* when the object holds something pickle cannot serialize, or when the
\* write fails).
PickleDump(obj, ok) ==
  IF ok THEN [exists |-> TRUE, complete |-> TRUE, obj |-> obj]
  ELSE Truncated

\* A load that does not give back the object that was dumped.
PickleLoadEmpty(content) == None

\* pickle.load(save_file): the object, when the file holds a complete pickle.
PickleLoad(content) == content.obj

\* pickle.load raises (EOFError) on a truncated file.
PickleLoadRaises(content) == ~content.complete

Contents == {NoFile, Truncated} \cup { PickleDump(v, TRUE) : v \in Values }

VARIABLES
  status,          \* per loader: "unborn", "live" (constructed), "failed"
  save_location,   \* self.save_location
  overwrite_data,  \* self.overwrite_data
  is_loaded,       \* self._is_loaded
  data,            \* self.data
  fs,              \* content of every file path
  stack,           \* the open `with` scopes, innermost last
  made,            \* per loader: how often its process_function returned
  got,             \* per loader: the object its first resolution obtained
  hist,            \* facts about the run so far
  last             \* the last operation and how it ended

loaderVars ==
  <<status, save_location, overwrite_data, is_loaded, data, fs, stack,
    made, got, hist, last>>

VARIABLES
  call,            \* the call being resolved: entry point and its arguments
  pc,              \* where the resolution stands
  stage,           \* process_page: which of its two list_of_search_results calls
  terms,           \* the tokenized terms
  fan,             \* the fan-out loop in progress
  output,          \* _output: the results gathered so far
  searches,        \* the bag of word lists handed to search_multiple_words
  result           \* what the entry point returned or raised

queryVars == <<call, pc, stage, terms, fan, output, searches, result>>

NoCall ==
  [fn |-> "none", args |-> <<>>, bypass |-> TRUE, kwargs |-> {},
   specific_query |-> "", processing_function |-> FALSE]

NoFan ==
  [kind |-> "none", base |-> <<>>, unordered |-> {}, ordered |-> <<>>,
   depth |-> 0]

NoResult == [exc |-> "none", val |-> <<>>]

\* No query has been made.
QueryIdle ==
  /\ call = NoCall
  /\ pc = "idle"
  /\ stage = 0
  /\ terms = <<>>
  /\ fan = NoFan
  /\ output = <<>>
  /\ searches = EmptyBag
  /\ result = NoResult

VARIABLES
  fetcher,         \* the function that fetches a page, "none" before
  asked,           \* the title it asks for and the page under that title
  page,            \* the title of the page wk.page answered with
  table,           \* the rows of the table found on the page
  row,             \* how many rows the loop has been through
  records,         \* what the loop has gathered
  outcome,         \* what the function returned or raised
  step             \* "idle", "rows" (in the row loop) or "done"

VARIABLES
  validated_cache, \* _VALIDATED_CACHE of query.py: the set of its items
  clock,           \* the date datetime.datetime.today() gives
  policy,          \* what the caller wants for a missing end of a term
  prev             \* what the extractor returned when it ran before

extractVars ==
  <<fetcher, asked, page, table, row, records, outcome, step,
    validated_cache, clock, policy, prev>>

VARIABLES
  storage_dir,     \* the names of the files in self.storage_dir
  founding_dates,  \* the keys of self.founding_dates, or the attribute is unset
  flag_data,       \* what NationFlagInformationLoader.process_function gave
  flag_pc          \* "idle" before process_function is called, "done" after

flagVars == <<storage_dir, founding_dates, flag_data, flag_pc>>

\* The day the program is started on.
StartDay == [year |-> 2026, month |-> 11, day |-> 4]

\* The extractor has not run before.
NoPrev == [ran |-> FALSE, outcome |-> [exc |-> "none", val |-> <<>>]]

\* No page has been fetched.
ExtractIdle ==
  /\ fetcher = "none"
  /\ asked = [title |-> "", kind |-> "missing"]
  /\ page = ""
  /\ table = <<>>
  /\ row = 0
  /\ records = <<>>
  /\ outcome = NoResult
  /\ step = "idle"
  /\ validated_cache = {}
  /\ clock = StartDay
  /\ policy = "none"
  /\ prev = NoPrev

\* process_function of the flag loader has not been called; nothing is
\* stored and the founding dates are those of no nation.
FlagIdle ==
  /\ storage_dir = {}
  /\ founding_dates = [set |-> TRUE, keys |-> {}]
  /\ flag_data = NoResult
  /\ flag_pc = "idle"

\* The path all constructible loaders share.
SharedPath == <<"data", "flag.pickle">>

NoLoc == <<"unset">>

(***************************************************************************)
(* InformationLoader.__init__                                              *)
(***************************************************************************)
\* __init__ without the check of the directory.
InitErrorNoDirCheck(loc) ==
  IF Len(loc) = 0 THEN "ValueError" ELSE "none"

\* The exception __init__ raises for a save location, or "none".
InitError(loc) ==
  IF Len(loc) = 0 THEN "ValueError"
  ELSE IF ~DirExists(Dirname(loc)) THEN "NotADirectoryError"
  ELSE "none"

LoaderInit(l, loc, ow) ==
  /\ status[l] = "unborn"
  /\ \A k \in Loaders : k < l => status[k] # "unborn"
  /\ LET err == InitError(loc) IN
       /\ status' = [status EXCEPT ![l] = IF err = "none" THEN "live" ELSE "failed"]
       /\ save_location' =
            [save_location EXCEPT ![l] = IF err = "none" THEN loc ELSE @]
       /\ overwrite_data' =
            [overwrite_data EXCEPT ![l] = IF err = "none" THEN ow ELSE @]
       /\ last' = [op |-> "init", exc |-> err, ret |-> None, arg |-> loc]
  /\ UNCHANGED <<is_loaded, data, fs, stack, made, got, hist>>
  /\ UNCHANGED <<queryVars, extractVars, flagVars>>

(***************************************************************************)
(* InformationLoader._load_or_parse, called by __enter__                   *)
(***************************************************************************)
\* _load_or_parse that never looks for the file: it produces on every first
\* resolution.
LoadOrParseIgnoresFile(me, file, prod) ==
  IF me.is_loaded THEN
    [how |-> "memo", exc |-> "none", data |-> me.data, is_loaded |-> TRUE,
     invoked |-> FALSE, ret |-> me.data]
  ELSE IF prod.raises THEN
    [how |-> "make", exc |-> "ProducerError", data |-> me.data,
     is_loaded |-> FALSE, invoked |-> TRUE, ret |-> None]
  ELSE
    [how |-> "make", exc |-> "none", data |-> prod.val, is_loaded |-> TRUE,
     invoked |-> TRUE, ret |-> prod.val]

\* _load_or_parse without the lazy-loading test of self._is_loaded.
LoadOrParseNoMemo(me, file, prod) ==
  IF me.overwrite_data \/ ~file.exists THEN
    IF prod.raises THEN
      [how |-> "make", exc |-> "ProducerError", data |-> me.data,
       is_loaded |-> me.is_loaded, invoked |-> TRUE, ret |-> None]
    ELSE
      [how |-> "make", exc |-> "none", data |-> prod.val, is_loaded |-> TRUE,
       invoked |-> TRUE, ret |-> prod.val]
  ELSE
    IF ~file.complete THEN
      [how |-> "load", exc |-> "EOFError", data |-> me.data,
       is_loaded |-> me.is_loaded, invoked |-> FALSE, ret |-> None]
    ELSE
      [how |-> "load", exc |-> "none", data |-> file.obj,
       is_loaded |-> TRUE, invoked |-> FALSE, ret |-> file.obj]

\* The effect of _load_or_parse on a loader `me` when the file at its save
\* location holds `file` and process_function, if called, ends with `prod`.
LoadOrParse(me, file, prod) ==
  IF me.is_loaded THEN
    [how |-> "memo", exc |-> "none", data |-> me.data, is_loaded |-> TRUE,
     invoked |-> FALSE, ret |-> me.data]
  ELSE IF me.overwrite_data \/ ~file.exists THEN
    IF prod.raises THEN
      [how |-> "make", exc |-> "ProducerError", data |-> me.data,
       is_loaded |-> FALSE, invoked |-> TRUE, ret |-> None]
    ELSE
      [how |-> "make", exc |-> "none", data |-> prod.val, is_loaded |-> TRUE,
       invoked |-> TRUE, ret |-> prod.val]
  ELSE
    IF PickleLoadRaises(file) THEN
      [how |-> "load", exc |-> "EOFError", data |-> me.data,
       is_loaded |-> FALSE, invoked |-> FALSE, ret |-> None]
    ELSE
      [how |-> "load", exc |-> "none", data |-> PickleLoad(file),
       is_loaded |-> TRUE, invoked |-> FALSE, ret |-> PickleLoad(file)]

Self(l) ==
  [overwrite_data |-> overwrite_data[l], is_loaded |-> is_loaded[l],
   data |-> data[l]]

OpenLoaders == { stack[i] : i \in 1..Len(stack) }

\* `with loader as x:` -- __enter__.  When it raises the scope is not entered
\* and __exit__ is not called.
Enter(l) ==
  /\ status[l] = "live"
  /\ Len(stack) < MaxDepth
  /\ \E prod \in ProducerOutcomes :
       LET r == LoadOrParse(Self(l), fs[save_location[l]], prod) IN
         /\ data' = [data EXCEPT ![l] = r.data]
         /\ is_loaded' = [is_loaded EXCEPT ![l] = r.is_loaded]
         /\ made' = [made EXCEPT ![l] =
                       IF r.invoked /\ r.exc = "none" THEN @ + 1 ELSE @]
         /\ got' = [got EXCEPT ![l] =
                      IF r.how # "memo" /\ r.exc = "none" THEN r.ret ELSE @]
         /\ stack' = IF r.exc = "none" THEN Append(stack, l) ELSE stack
         /\ last' = [op |-> r.how, exc |-> r.exc, ret |-> r.ret, arg |-> NoLoc]
  /\ UNCHANGED <<status, save_location, overwrite_data, fs, hist>>
  /\ UNCHANGED <<queryVars, extractVars, flagVars>>

(***************************************************************************)
(* InformationLoader.__exit__                                              *)
(***************************************************************************)
\* __exit__ that writes whenever the scope ends.
ExitWritesAlways(me, file) == TRUE

\* __exit__ that writes only when an overwrite was requested.
ExitWritesOnlyOverwrite(me, file) == me.overwrite_data

\* Whether __exit__ opens the save file for writing.
ExitWrites(me, file) ==
  \/ ~file.exists
  \/ (file.exists /\ me.overwrite_data)

\* The end of the innermost scope, whether its body finished or raised:
\* __exit__ does not look at exc_type.
Exit(l) ==
  /\ Len(stack) > 0
  /\ stack[Len(stack)] = l
  /\ stack' = SubSeq(stack, 1, Len(stack) - 1)
  /\ \E ok \in BOOLEAN :
       LET loc == save_location[l]
           w == ExitWrites(Self(l), fs[loc]) IN
         /\ fs' = [fs EXCEPT ![loc] = IF w THEN PickleDump(data[l], ok) ELSE @]
         /\ last' = [op |-> IF w THEN "write" ELSE "keep",
                     exc |-> IF w /\ ~ok THEN "PicklingError" ELSE "none",
                     ret |-> None, arg |-> NoLoc]
  /\ UNCHANGED <<status, save_location, overwrite_data, is_loaded, data,
                 made, got, hist>>
  /\ UNCHANGED <<queryVars, extractVars, flagVars>>

(***************************************************************************)
(* The environment of a loader                                             *)
(***************************************************************************)
\* The body of an open scope modifies, in place, the object __enter__ handed
\* it: self.data is that same object.
Mutate(l, v) ==
  /\ l \in OpenLoaders
  /\ v \in Values
  /\ v # data[l]
  /\ data' = [data EXCEPT ![l] = v]
  /\ hist' = [hist EXCEPT !.mutated = TRUE]
  /\ last' = [op |-> "mutate", exc |-> "none", ret |-> None, arg |-> NoLoc]
  /\ UNCHANGED <<status, save_location, overwrite_data, is_loaded, fs, stack,
                 made, got>>
  /\ UNCHANGED <<queryVars, extractVars, flagVars>>

\* Somebody deletes the backing file.
DeleteFile ==
  /\ fs[SharedPath].exists
  /\ fs' = [fs EXCEPT ![SharedPath] = NoFile]
  /\ hist' = [hist EXCEPT !.deleted = TRUE]
  /\ last' = [op |-> "delete", exc |-> "none", ret |-> None, arg |-> NoLoc]
  /\ UNCHANGED <<status, save_location, overwrite_data, is_loaded, data,
                 stack, made, got>>
  /\ UNCHANGED <<queryVars, extractVars, flagVars>>

LoaderStart ==
  /\ status = [l \in Loaders |-> "unborn"]
  /\ save_location = [l \in Loaders |-> NoLoc]
  /\ overwrite_data = [l \in Loaders |-> FALSE]
  /\ is_loaded = [l \in Loaders |-> FALSE]
  /\ data = [l \in Loaders |-> None]
  /\ \E c \in Contents :
       /\ fs = [p \in FilePaths |-> IF p = SharedPath THEN c ELSE NoFile]
       /\ hist = [fresh |-> ~c.exists, deleted |-> FALSE, mutated |-> FALSE]
  /\ stack = <<>>
  /\ made = [l \in Loaders |-> 0]
  /\ got = [l \in Loaders |-> None]
  /\ last = [op |-> "start", exc |-> "none", ret |-> None, arg |-> NoLoc]

LoaderNext ==
  \/ \E l \in Loaders, loc \in Locations, ow \in BOOLEAN : LoaderInit(l, loc, ow)
  \/ \E l \in Loaders : Enter(l)
  \/ \E l \in Loaders : Exit(l)
  \/ \E l \in Loaders, v \in Values : Mutate(l, v)
  \/ DeleteFile

(***************************************************************************)
(* The query layer: str and list operations                                *)
(***************************************************************************)
\* How many terms a query has at most.
MaxTerms == 2

UpperCase == "ABCDEFGHIJKLMNOPQRSTUVWXYZ"
LowerCase == "abcdefghijklmnopqrstuvwxyz"

\* The upper-case letters and the lower-case letter of each.
UpperChars == { SubSeq(UpperCase, k, k) : k \in 1..Len(UpperCase) }

LowerOfChar ==
  [c \in UpperChars |->
     LET i == CHOOSE k \in 1..Len(UpperCase) : SubSeq(UpperCase, k, k) = c
     IN SubSeq(LowerCase, i, i)]

\* str.lower() of one character.
LowerChar(c) == IF c \in UpperChars THEN LowerOfChar[c] ELSE c

\* str.lower()
RECURSIVE StrLower(_)
StrLower(s) ==
  IF s = "" THEN ""
  ELSE LowerChar(SubSeq(s, 1, 1)) \o StrLower(SubSeq(s, 2, Len(s)))

\* `sub in s` for two str.
StrIn(sub, s) ==
  \E i \in 0..(Len(s) - Len(sub)) : SubSeq(s, i + 1, i + Len(sub)) = sub

\* str.endswith(suffix)
EndsWith(s, suffix) ==
  /\ Len(s) >= Len(suffix)
  /\ SubSeq(s, Len(s) - Len(suffix) + 1, Len(s)) = suffix

\* str.split(sep)
RECURSIVE StrSplit(_, _)
StrSplit(s, sep) ==
  IF ~StrIn(sep, s) THEN <<s>>
  ELSE LET at(k) == SubSeq(s, k, k + Len(sep) - 1) = sep
           i == CHOOSE k \in 1..(Len(s) - Len(sep) + 1) :
                  at(k) /\ \A j \in 1..(k - 1) : ~at(j)
       IN <<SubSeq(s, 1, i - 1)>> \o StrSplit(SubSeq(s, i + Len(sep), Len(s)), sep)

\* The elements of a list.
Range(seq) == { seq[i] : i \in 1..Len(seq) }

\* `x in seq` for a list.
ListIn(x, seq) == \E i \in 1..Len(seq) : seq[i] = x

\* list.remove(x): the list without the first occurrence of x.
ListRemove(seq, x) ==
  LET i == CHOOSE k \in 1..Len(seq) : seq[k] = x /\ \A j \in 1..(k - 1) : seq[j] # x
  IN SubSeq(seq, 1, i - 1) \o SubSeq(seq, i + 1, Len(seq))

\* list(a_set): the elements of a set in every order the build may give.
Orderings(S) ==
  { f \in [1..Cardinality(S) -> S] :
      \A i, j \in 1..Cardinality(S) : i # j => f[i] # f[j] }

(***************************************************************************)
(* The resource lists, generated when the module is imported               *)
(***************************************************************************)
\* A sample of pycountry's records, in the order pc.countries yields them.
Countries ==
  << [name |-> "France", alpha_2 |-> "FR", alpha_3 |-> "FRA"],
     [name |-> "Japan", alpha_2 |-> "JP", alpha_3 |-> "JPN"],
     [name |-> "Korea, Republic of", alpha_2 |-> "KR", alpha_3 |-> "KOR"],
     [name |-> "Korea, Democratic People's Republic of",
      alpha_2 |-> "KP", alpha_3 |-> "PRK"],
     [name |-> "Timor-Leste", alpha_2 |-> "TL", alpha_3 |-> "TLS"],
     [name |-> "United States", alpha_2 |-> "US", alpha_3 |-> "USA"] >>

\* country_name and country_official_name of a record: a name of the form
\* "X, ... of" is split at the comma.
NationNames(item) ==
  IF StrIn(",", item.name)
     /\ (EndsWith(item.name, "of") \/ EndsWith(item.name, "of the"))
  THEN LET parts == StrSplit(item.name, ", ")
       IN [country_name |-> parts[1],
           country_official_name |-> parts[2] \o " " \o parts[1]]
  ELSE [country_name |-> item.name, country_official_name |-> item.name]

\* The manual additions to a record's sub-list.
ManualAdditions(official) ==
  (IF official = "Brunei Darussalam" THEN <<"brunei">> ELSE <<>>)
  \o (IF official = "Democratic People's Republic of Korea"
      THEN <<"north korea">> ELSE <<>>)
  \o (IF official = "Republic of Korea" THEN <<"south korea">> ELSE <<>>)
  \o (IF official = "Cabo Verde" THEN <<"cape verde">> ELSE <<>>)

\* One value of _NATION_DICT: the lower-cased names and codes, listed from a
\* set and so in no fixed order, followed by the manual additions.
NationSublist(item) ==
  LET n == NationNames(item)
  IN [unordered |->
        { StrLower(it) : it \in { n.country_name, n.country_official_name,
                                  item.alpha_2, item.alpha_3 } },
      appended |-> ManualAdditions(n.country_official_name)]

\* _NATION_DICT, its keys in insertion order; the last two entries are the
\* manual items, which are not lower-cased.
NationDict ==
  [indx \in 1..(Len(Countries) + 2) |->
     IF indx <= Len(Countries) THEN NationSublist(Countries[indx])
     ELSE IF indx = Len(Countries) + 1
          THEN [unordered |-> {}, appended |-> <<"East Timor">>]
          ELSE [unordered |-> {}, appended |-> <<"Timor-Leste">>]]

\* The aliases of one entry of _NATION_DICT.
Aliases(indx) == NationDict[indx].unordered \cup Range(NationDict[indx].appended)

\* _REPLACEMENT_QUERIES
ReplacementQueries ==
  << <<"nation", "country", "countries", "nations", "sovereign states">>,
     <<"president", "presidents", "prime minister", "prime ministers">> >>

\* _ALLOWED_SPACED_QUERIES
AllowedSpacedQueries == <<"prime minister", "prime ministers", "united states">>

\* _SUPPORTED_LIST_QUERIES
SupportedListQueries == <<"us presidents", "sovereign states formation">>

(***************************************************************************)
(* Searching                                                               *)
(***************************************************************************)
\* The page titles the encyclopedia holds.
Pages ==
  << "List of presidents of France",
     "List of prime ministers of France",
     "List of presidents of South Korea",
     "List of leaders of North Korea",
     "List of sovereign states",
     "Alphabetical list of sovereign states",
     "France" >>

\* Hits of the full-text search whose title does not hold the search term.
FullTextHits ==
  { <<"fr", "List of presidents of France">>,
    <<"kr", "List of presidents of South Korea">>,
    <<"kp", "List of leaders of North Korea">> }

\* word.lower() of every title, worked out once.
LowerTitle == [p \in Range(Pages) |-> StrLower(p)]

\* wk.search(term): the titles the search engine answers with, in its order.
WkSearch(term) ==
  SelectSeq(Pages, LAMBDA p : \/ StrIn(StrLower(term), LowerTitle[p])
                              \/ <<term, p>> \in FullTextHits)

\* _merge_query_results: the answers to every term, one after the other.
RECURSIVE MergeQueryResults(_)
MergeQueryResults(ts) ==
  IF ts = <<>> THEN <<>>
  ELSE WkSearch(Head(ts)) \o MergeQueryResults(Tail(ts))

\* Mutant: a title is kept as soon as it holds one of the words.
SearchMultipleWordsAnyWord(words) ==
  IF Len(words) = 1 THEN WkSearch(words[1])
  ELSE SelectSeq(MergeQueryResults(words),
                 LAMBDA out : \E i \in 1..Len(words) :
                                StrIn(StrLower(words[i]), LowerTitle[out]))

\* search_multiple_words: of the merged answers, those holding every word.
SearchMultipleWords(words) ==
  IF Len(words) = 1 THEN WkSearch(words[1])
  ELSE SelectSeq(MergeQueryResults(words),
                 LAMBDA out : \A i \in 1..Len(words) :
                                StrIn(StrLower(words[i]), LowerTitle[out]))

\* Mutant: every term with a space is split, the allowed spaced queries too.
RECURSIVE TokenizeSplitsAll(_)
TokenizeSplitsAll(ts) ==
  IF ts = <<>> THEN <<>>
  ELSE LET term == Head(ts)
       IN (IF StrIn(" ", term) THEN StrSplit(term, " ") ELSE <<term>>)
          \o TokenizeSplitsAll(Tail(ts))

\* The tokenization of list_of_search_results: a term with a space is split
\* unless it is an allowed spaced query.
RECURSIVE Tokenize(_)
Tokenize(ts) ==
  IF ts = <<>> THEN <<>>
  ELSE LET term == Head(ts)
       IN (IF StrIn(" ", term) /\ ~ListIn(term, AllowedSpacedQueries)
           THEN StrSplit(term, " ")
           ELSE <<term>>) \o Tokenize(Tail(ts))

\* The words list_of_search_results(*ts, bypass = False) hands to
\* search_multiple_words: the lower-cased tokens and 'list'.
PlainWords(ts) ==
  LET tk == Tokenize(ts)
  IN [i \in 1..Len(tk) |-> StrLower(tk[i])] \o <<"list">>

\* output_list of list_of_search_results(*ts, bypass = False).
PlainResults(ts) == SearchMultipleWords(PlainWords(ts))

(***************************************************************************)
(* _parse_query_for_conditions: which fan-out, if any                      *)
(***************************************************************************)
\* The pairs (position of a term, key of a nation) with the term among the
\* nation's aliases.
NationMatches(ts) ==
  { m \in (1..Len(ts)) \X (DOMAIN NationDict) : ts[m[1]] \in Aliases(m[2]) }

\* The pairs (position of a term, index of a group) with the term in the group.
ReplacementMatches(ts) ==
  { m \in (1..Len(ts)) \X (DOMAIN ReplacementQueries) :
      ListIn(ts[m[1]], ReplacementQueries[m[2]]) }

\* The pair the nested loops (terms outside, dictionary inside) reach first.
FirstMatch(M) ==
  CHOOSE m \in M :
    \A o \in M : m[1] < o[1] \/ (m[1] = o[1] /\ m[2] <= o[2])

\* Mutant: the skip_replacement_queries keyword is not looked at.
ParseBranchIgnoresSkip(ts, kwargs) ==
  IF NationMatches(ts) # {} THEN "nation"
  ELSE IF ReplacementMatches(ts) # {} THEN "replacement"
  ELSE "plain"

\* The branch _parse_query_for_conditions takes.
ParseBranch(ts, kwargs) ==
  IF NationMatches(ts) # {} THEN "nation"
  ELSE IF "skip_replacement_queries" \notin kwargs /\ ReplacementMatches(ts) # {}
       THEN "replacement"
  ELSE "plain"

\* A Python object with its type: a str, or a list of str.
PyStr(x) == [type |-> "str", value |-> x]
PyList(x) == [type |-> "list", value |-> x]

\* processing_function applied to a page title or to a list of them.
ProcessingFunction(x) == [processed |-> x]

(***************************************************************************)
(* The calls                                                               *)
(***************************************************************************)
\* The terms a caller composes a query of.
TermPool ==
  { "france", "korea", "kp", "united states", "Timor-Leste", "presidents",
    "prime minister", "nation", "sovereign states", "us presidents" }

Queries == UNION { [1..n -> TermPool] : n \in 1..MaxTerms }

\* specific_query of process_page; '' and None both count as not given.
Hints == { "", "presidents of France", "list of sovereign states" }

\* Mutant: the guard on bypass lets every call through.
PermissionDeniedNever(bypass, caller) == FALSE

\* The guard of list_of_search_results: bypass = False is refused unless the
\* function of the calling frame is one of the two named.
PermissionDenied(bypass, caller) ==
  /\ ~bypass
  /\ caller \notin {"list_of_search_results", "_parse_query_for_conditions"}

\* list_of_search_results(*q, bypass, **kw) called from outside: the guard
\* on bypass, then the tokenization, then _parse_query_for_conditions.
ListOfSearchResults(q, bypass, kw) ==
  /\ pc = "idle"
  /\ call' = [fn |-> "list_of_search_results", args |-> q, bypass |-> bypass,
              kwargs |-> kw, specific_query |-> "",
              processing_function |-> FALSE]
  /\ IF PermissionDenied(bypass, "<module>")
     THEN /\ result' = [exc |-> "PermissionError", val |-> <<>>]
          /\ pc' = "done"
          /\ UNCHANGED <<terms, stage>>
     ELSE /\ terms' = Tokenize(q)
          /\ pc' = "parse"
          /\ stage' = 1
          /\ UNCHANGED result
  /\ UNCHANGED <<fan, output, searches>>
  /\ UNCHANGED <<loaderVars, extractVars, flagVars>>

\* process_page(*q, specific_query = hint, processing_function): a supported
\* list query is processed at once, any other is handed to
\* list_of_search_results with skip_replacement_queries = True.
ProcessPage(q, hint, pf) ==
  /\ pc = "idle"
  /\ call' = [fn |-> "process_page", args |-> q, bypass |-> TRUE,
              kwargs |-> {"skip_replacement_queries"},
              specific_query |-> hint, processing_function |-> pf]
  /\ IF \E i \in 1..Len(q) : ListIn(q[i], SupportedListQueries)
     THEN LET i == CHOOSE k \in 1..Len(q) :
                     /\ ListIn(q[k], SupportedListQueries)
                     /\ \A j \in 1..(k - 1) : ~ListIn(q[j], SupportedListQueries)
              title == IF q[i] = "us presidents"
                       THEN "List of presidents of the United States"
                       ELSE "List of sovereign states by dates of formation"
          IN /\ result' = IF pf
                          THEN [exc |-> "none",
                                val |-> ProcessingFunction(PyStr(title))]
                          ELSE [exc |-> "TypeError", val |-> <<>>]
             /\ pc' = "done"
             /\ UNCHANGED <<terms, stage>>
     ELSE /\ terms' = Tokenize(q)
          /\ pc' = "parse"
          /\ stage' = 1
          /\ UNCHANGED result
  /\ UNCHANGED <<fan, output, searches>>
  /\ UNCHANGED <<loaderVars, extractVars, flagVars>>

\* Mutant: the calls made by _parse_query_for_conditions leave bypass on.
InnerBypassOn == TRUE

\* The bypass argument of every call of list_of_search_results that
\* _parse_query_for_conditions makes.
InnerBypass == FALSE

\* _parse_query_for_conditions up to its first loop iteration: it settles on
\* the nation fan-out, the replacement fan-out or the plain search, which
\* it performs at once.
ParseQueryForConditions ==
  /\ pc = "parse"
  /\ LET branch == ParseBranch(terms, call.kwargs) IN
       IF branch = "nation"
       THEN LET m == FirstMatch(NationMatches(terms))
            IN /\ fan' = [kind |-> "nation",
                          base |-> ListRemove(terms, terms[m[1]]),
                          unordered |-> NationDict[m[2]].unordered,
                          ordered |-> NationDict[m[2]].appended,
                          depth |-> fan.depth + 1]
               /\ pc' = "fan"
               /\ UNCHANGED <<output, searches, result>>
       ELSE IF branch = "replacement"
       THEN LET m == FirstMatch(ReplacementMatches(terms))
            IN /\ fan' = [kind |-> "replacement",
                          base |-> ListRemove(terms, terms[m[1]]),
                          unordered |-> {},
                          ordered |-> ReplacementQueries[m[2]],
                          depth |-> fan.depth + 1]
               /\ pc' = "fan"
               /\ UNCHANGED <<output, searches, result>>
       ELSE IF PermissionDenied(InnerBypass, "_parse_query_for_conditions")
       THEN /\ result' = [exc |-> "PermissionError", val |-> <<>>]
            /\ pc' = "done"
            /\ UNCHANGED <<fan, output, searches>>
       ELSE IF InnerBypass
       THEN /\ pc' = "parse"
            /\ UNCHANGED <<fan, output, searches, result>>
       ELSE /\ \E out \in Orderings(Range(PlainResults(terms))) :
                 output' = out
            /\ searches' = searches (+) SetToBag({PlainWords(terms)})
            /\ pc' = "return"
            /\ UNCHANGED <<fan, result>>
  /\ UNCHANGED <<call, stage, terms>>
  /\ UNCHANGED <<loaderVars, extractVars, flagVars>>

\* One iteration of a fan-out loop: the next alias or replacement is
\* appended to the remaining terms, list_of_search_results(bypass = False)
\* searches for them and its answer extends _output, and the appended term
\* is removed again. After the last iteration _output is returned. A call
\* with bypass on would hand its terms to _parse_query_for_conditions again.
FanOutStep ==
  /\ pc = "fan"
  /\ \E code \in (IF fan.unordered # {} THEN fan.unordered
                  ELSE {Head(fan.ordered)}) :
       LET filter_terms == Append(fan.base, code)
           rest == [fan EXCEPT
                      !.base = ListRemove(filter_terms, code),
                      !.unordered = @ \ {code},
                      !.ordered = IF fan.unordered # {} THEN @ ELSE Tail(@)]
       IN /\ fan' = rest
          /\ IF PermissionDenied(InnerBypass, "_parse_query_for_conditions")
             THEN /\ result' = [exc |-> "PermissionError", val |-> <<>>]
                  /\ pc' = "done"
                  /\ UNCHANGED <<terms, output, searches>>
             ELSE IF InnerBypass
             THEN /\ terms' = Tokenize(filter_terms)
                  /\ pc' = "parse"
                  /\ UNCHANGED <<output, searches, result>>
             ELSE /\ \E out \in Orderings(Range(PlainResults(filter_terms))) :
                       output' = output \o out
                  /\ searches' = searches (+) SetToBag({PlainWords(filter_terms)})
                  /\ pc' = IF rest.unordered = {} /\ rest.ordered = <<>>
                           THEN "return" ELSE "fan"
                  /\ UNCHANGED <<terms, result>>
  /\ UNCHANGED <<call, stage>>
  /\ UNCHANGED <<loaderVars, extractVars, flagVars>>

\* list_of_search_results returns to the outside caller.
ListOfSearchResultsReturn ==
  /\ pc = "return"
  /\ call.fn = "list_of_search_results"
  /\ result' = [exc |-> "none", val |-> output]
  /\ pc' = "done"
  /\ UNCHANGED <<call, stage, terms, fan, output, searches>>
  /\ UNCHANGED <<loaderVars, extractVars, flagVars>>

\* Whether process_page takes a candidate for the one specific_query asks
\* for: as a substring, or as the whole title whatever the case.
HintMatches(hint, candidate) ==
  \/ StrIn(hint, candidate)
  \/ StrLower(hint) = StrLower(candidate)

\* process_page once list_of_search_results has answered: with a
\* specific_query the first candidate matching it is taken and, if there is
\* none, list_of_search_results is called a second time and its whole
\* answer is taken; without one the first candidate is taken. Then the
\* processing function is applied.
ProcessPageSelect ==
  /\ pc = "return"
  /\ call.fn = "process_page"
  /\ LET hint == call.specific_query
         hits == { i \in 1..Len(output) : HintMatches(hint, output[i]) }
         apply(valid_list) ==
           IF call.processing_function
           THEN [exc |-> "none", val |-> ProcessingFunction(valid_list)]
           ELSE [exc |-> "ValueError", val |-> <<>>]
     IN IF stage = 1 /\ hint # "" /\ hits = {}
        THEN /\ stage' = 2
             /\ pc' = "parse"
             /\ output' = <<>>
             /\ fan' = NoFan
             /\ UNCHANGED result
        ELSE /\ result' =
                  IF stage = 2 THEN apply(PyList(output))
                  ELSE IF hint # ""
                       THEN apply(PyStr(output[CHOOSE i \in hits :
                                                 \A j \in hits : i <= j]))
                  ELSE IF output = <<>>
                       THEN [exc |-> "IndexError", val |-> <<>>]
                  ELSE apply(PyStr(output[1]))
             /\ pc' = "done"
             /\ UNCHANGED <<stage, output, fan>>
  /\ UNCHANGED <<call, terms, searches>>
  /\ UNCHANGED <<loaderVars, extractVars, flagVars>>

\* No loader has been constructed and no cache file exists.
LoaderIdle ==
  /\ status = [l \in Loaders |-> "unborn"]
  /\ save_location = [l \in Loaders |-> NoLoc]
  /\ overwrite_data = [l \in Loaders |-> FALSE]
  /\ is_loaded = [l \in Loaders |-> FALSE]
  /\ data = [l \in Loaders |-> None]
  /\ fs = [p \in FilePaths |-> NoFile]
  /\ hist = [fresh |-> TRUE, deleted |-> FALSE, mutated |-> FALSE]
  /\ stack = <<>>
  /\ made = [l \in Loaders |-> 0]
  /\ got = [l \in Loaders |-> None]
  /\ last = [op |-> "start", exc |-> "none", ret |-> None, arg |-> NoLoc]

QueryInit == LoaderIdle /\ QueryIdle /\ ExtractIdle /\ FlagIdle

QueryNext ==
  \/ \E q \in Queries, bypass \in BOOLEAN,
        kw \in SUBSET {"skip_replacement_queries"} :
       ListOfSearchResults(q, bypass, kw)
  \/ \E q \in Queries, hint \in Hints, pf \in BOOLEAN : ProcessPage(q, hint, pf)
  \/ ParseQueryForConditions
  \/ FanOutStep
  \/ ListOfSearchResultsReturn
  \/ ProcessPageSelect

(***************************************************************************)
(* Page fetches and table extraction: text and number conversions          *)
(***************************************************************************)
\* How many rows a table has at most.
MaxRows == 2

\* How many days pass while the program runs at most.
MaxDays == 1

Digits == {"0", "1", "2", "3", "4", "5", "6", "7", "8", "9"}

\* The character of s at position i.
Ch(s, i) == SubSeq(s, i, i)

IsDigits(s) == \A i \in 1..Len(s) : Ch(s, i) \in Digits

DigitValue(c) ==
  CASE c = "0" -> 0 [] c = "1" -> 1 [] c = "2" -> 2 [] c = "3" -> 3
    [] c = "4" -> 4 [] c = "5" -> 5 [] c = "6" -> 6 [] c = "7" -> 7
    [] c = "8" -> 8 [] c = "9" -> 9

\* The number a string of digits denotes.
RECURSIVE DigitsValue(_)
DigitsValue(s) ==
  IF s = "" THEN 0
  ELSE 10 * DigitsValue(SubSeq(s, 1, Len(s) - 1)) + DigitValue(Ch(s, Len(s)))

RECURSIVE Pow10(_)
Pow10(n) == IF n = 0 THEN 1 ELSE 10 * Pow10(n - 1)

\* re.sub(c, '', s) for a single character c.
RECURSIVE RemoveChar(_, _)
RemoveChar(s, c) ==
  IF s = "" THEN ""
  ELSE (IF Ch(s, 1) = c THEN "" ELSE Ch(s, 1))
       \o RemoveChar(SubSeq(s, 2, Len(s)), c)

\* The first position of character c in s, 0 if there is none.
Find(s, c) ==
  IF \E i \in 1..Len(s) : Ch(s, i) = c
  THEN CHOOSE i \in 1..Len(s) : Ch(s, i) = c /\ \A j \in 1..(i - 1) : Ch(s, j) # c
  ELSE 0

\* re.sub('\\[(.*?)\\]', '', s) and re.sub('\\((.*?)\\)', '', s): every
\* stretch from an opening character to the next closing one is removed.
RECURSIVE RemoveEnclosed(_, _, _)
RemoveEnclosed(s, open, close) ==
  LET i == Find(s, open)
      after == SubSeq(s, i + 1, Len(s))
      j == Find(after, close)
  IN IF i = 0 THEN s
     ELSE IF j = 0
          THEN SubSeq(s, 1, i)
               \o RemoveEnclosed(after, open, close)
          ELSE SubSeq(s, 1, i - 1)
               \o RemoveEnclosed(SubSeq(after, j + 1, Len(after)), open, close)

\* int(s) for a stripped text: an optional sign and digits. PyInt raises
\* ValueError where ok is FALSE.
PyInt(s) ==
  LET signed == s # "" /\ Ch(s, 1) \in {"+", "-"}
      body == IF signed THEN SubSeq(s, 2, Len(s)) ELSE s
      ok == body # "" /\ IsDigits(body)
  IN [ok |-> ok,
      value |-> IF ~ok THEN 0
                ELSE IF signed /\ Ch(s, 1) = "-" THEN 0 - DigitsValue(body)
                ELSE DigitsValue(body)]

\* float(s) for a stripped text in decimal notation: an optional sign,
\* digits and at most one point; the value is kept as the fraction num/den.
PyFloat(s) ==
  LET signed == s # "" /\ Ch(s, 1) \in {"+", "-"}
      body == IF signed THEN SubSeq(s, 2, Len(s)) ELSE s
      p == Find(body, ".")
      whole == IF p = 0 THEN body ELSE SubSeq(body, 1, p - 1)
      frac == IF p = 0 THEN "" ELSE SubSeq(body, p + 1, Len(body))
      ok == IsDigits(whole) /\ IsDigits(frac) /\ whole \o frac # ""
      n == DigitsValue(whole \o frac)
  IN [ok |-> ok,
      num |-> IF ~ok THEN 0
              ELSE IF signed /\ Ch(s, 1) = "-" THEN 0 - n ELSE n,
      den |-> IF ~ok THEN 1 ELSE Pow10(Len(frac))]

\* n / x for an int n and a float x; ZeroDivisionError where ok is FALSE.
PyDiv(n, x) == [ok |-> x.num # 0, num |-> n * x.den, den |-> x.num]

\* len(re.findall('\\d{2,3},\\d{3}\\sBC', s)) > 0
HasDistantBC(s) ==
  \E i \in 1..Len(s) : \E k \in {2, 3} :
    /\ i + k + 6 <= Len(s)
    /\ IsDigits(SubSeq(s, i, i + k - 1))
    /\ Ch(s, i + k) = ","
    /\ IsDigits(SubSeq(s, i + k + 1, i + k + 3))
    /\ Ch(s, i + k + 4) = " "
    /\ SubSeq(s, i + k + 5, i + k + 6) = "BC"

\* re.sub('(\\d{1,4})(AD|BC)', '\\1 \\2', s) followed by
\* re.sub('([AB])([DC])', '\\1.\\2.', s): a space is put between a digit
\* and a following AD or BC, and every A or B followed by D or C gets dots.
RECURSIVE SpaceEra(_)
SpaceEra(s) ==
  IF Len(s) < 3 THEN s
  ELSE IF Ch(s, 1) \in Digits /\ SubSeq(s, 2, 3) \in {"AD", "BC"}
       THEN Ch(s, 1) \o " " \o SubSeq(s, 2, 3) \o SpaceEra(SubSeq(s, 4, Len(s)))
       ELSE Ch(s, 1) \o SpaceEra(SubSeq(s, 2, Len(s)))

RECURSIVE DotEra(_)
DotEra(s) ==
  IF Len(s) < 2 THEN s
  ELSE IF Ch(s, 1) \in {"A", "B"} /\ Ch(s, 2) \in {"D", "C"}
       THEN Ch(s, 1) \o "." \o Ch(s, 2) \o "." \o DotEra(SubSeq(s, 3, Len(s)))
       ELSE Ch(s, 1) \o DotEra(SubSeq(s, 2, Len(s)))

\* The cleanup get_gwp_data applies to the text of a cell.
GwpParsedItem(text) ==
  DotEra(SpaceEra(
    RemoveChar(RemoveChar(
      RemoveEnclosed(RemoveEnclosed(text, "[", "]"), "(", ")"),
      ","), " ")))

(***************************************************************************)
(* Page fetches: wk.page as the wikipedia package defines it               *)
(***************************************************************************)
\* What the encyclopedia holds under a title.
PageKinds == {"article", "disambiguation", "missing"}

\* The titles the functions with a term parameter are called with.
FetchTerms == {"Georgia", "List of presidents of the United States"}

\* A title the search of the encyclopedia may answer first when asked for
\* another one.
Suggested(title) == title \o " (country)"

\* The encyclopedia as one fetch sees it: the page under the title asked
\* for, and the first answer of the search for that title ("" for none)
\* with the page under it.
Worlds(title) ==
  { w \in [kind : PageKinds, first : {"", title, Suggested(title)},
           first_kind : PageKinds] :
      /\ (w.first = "") => (w.first_kind = "missing")
      /\ (w.first = title) => (w.first_kind = w.kind) }

NoPage == ""

\* WikipediaPage(title): the page is loaded, PageError for a missing page
\* and DisambiguationError for a disambiguation page.
WikipediaPage(title, kind) ==
  IF kind = "missing" THEN [exc |-> "PageError", title |-> NoPage]
  ELSE IF kind = "disambiguation"
       THEN [exc |-> "DisambiguationError", title |-> NoPage]
       ELSE [exc |-> "none", title |-> title]

\* wk.page(title, auto_suggest): with auto_suggest the title is replaced by
\* the first answer of the search before the page is loaded.
WkPage(title, auto_suggest, w) ==
  IF auto_suggest
  THEN IF w.first = "" THEN [exc |-> "PageError", title |-> NoPage]
       ELSE WikipediaPage(w.first, w.first_kind)
  ELSE WikipediaPage(title, w.kind)

(***************************************************************************)
(* Table extraction: the rows and what each extractor makes of one row     *)
(***************************************************************************)
Sentinel == "Sources:"

\* A row is the list of the stripped texts of its <td> cells; a header row
\* has none.
ExecutiveOrderRows ==
  { <<>>,
    <<Sentinel>>,
    <<"1", "Washington", "F", "8", "7.95", "1.0">>,
    <<Sentinel, "Adams", "F", "1", "4", "0.25">>,
    <<"3", Sentinel, "DR", "4", "8", "0.5">>,
    <<"4", "Madison", "DR", "n/a", "8", "0.1">>,
    <<"9", "Harrison", "W", "0", "0.08", "0.0">>,
    <<"32", "Roosevelt", "D", "3,721", "12.12", "307.8">> }

GwpRows ==
  { <<>>,
    <<Sentinel>>,
    <<Sentinel, "">>,
    <<"2014", "77,868.00">>,
    <<"1 AD", "18.50[a]">>,
    <<"2000 BC", "n/a">>,
    <<"25,000 BC", "3.02">>,
    <<"1950", "4,081 (est.)", Sentinel>> }

PoliticalPartyRows ==
  { <<>>,
    <<Sentinel>>,
    <<"1", "", "Washington", "1789", "Unaffiliated[a]">>,
    <<Sentinel, "", "Adams", "1797", "Federalist">>,
    <<"3", "", "Jefferson", "1801", Sentinel>>,
    <<"4", "", "Madison">> }

\* d[k] = v on a dict kept as the list of its items.
DictSet(d, k, v) ==
  IF \E i \in 1..Len(d) : d[i][1] = k
  THEN [i \in 1..Len(d) |-> IF d[i][1] = k THEN <<k, v>> ELSE d[i]]
  ELSE Append(d, <<k, v>>)

Reversed(d) == [i \in 1..Len(d) |-> d[Len(d) + 1 - i]]

\* The body of the row loop of get_list_of_executive_orders: cells 1, 3 and
\* 5 are the name, the number of orders and the average per year; a cell
\* with the sentinel is passed over.
ExecutiveOrdersRow(cells, acc) ==
  LET read(indx) == indx < Len(cells) /\ cells[indx + 1] # Sentinel
      n == PyInt(RemoveChar(cells[4], ","))
      x == PyFloat(RemoveChar(cells[6], ","))
  IN IF read(3) /\ ~n.ok THEN [exc |-> "ValueError", acc |-> acc]
     ELSE IF read(5) /\ ~x.ok THEN [exc |-> "ValueError", acc |-> acc]
     ELSE IF read(1) /\ read(3) /\ read(5)
          THEN IF PyDiv(n.value, x).ok
               THEN [exc |-> "none",
                     acc |-> DictSet(acc, cells[2],
                                     <<n.value, PyDiv(n.value, x)>>)]
               ELSE [exc |-> "ZeroDivisionError", acc |-> acc]
          ELSE [exc |-> "none", acc |-> acc]

\* The body of the row loop of get_gwp_data: cells 0 and 1 are the year and
\* the product; a cell with the sentinel is passed over and a cell with a
\* year before 9999 BC ends the row.
GwpRow(cells, acc) ==
  LET ends(indx) == cells[indx + 1] # Sentinel /\ HasDistantBC(cells[indx + 1])
      stop == IF \E indx \in 0..(Len(cells) - 1) : ends(indx)
              THEN CHOOSE indx \in 0..(Len(cells) - 1) :
                     ends(indx) /\ \A j \in 0..(indx - 1) : ~ends(j)
              ELSE Len(cells)
      read(indx) == indx < stop /\ cells[indx + 1] # Sentinel
      x == PyFloat(GwpParsedItem(cells[2]))
  IN IF read(1) /\ ~x.ok THEN [exc |-> "ValueError", acc |-> acc]
     ELSE IF read(0) /\ read(1)
          THEN [exc |-> "none",
                acc |-> DictSet(acc, GwpParsedItem(cells[1]), x)]
          ELSE [exc |-> "none", acc |-> acc]

\* The body of the row loop of
\* us_president_political_parties_processing_function: cell 4 is the party.
PoliticalPartiesRow(cells, acc) ==
  LET read(indx) == indx < Len(cells) /\ cells[indx + 1] # Sentinel
  IN [exc |-> "none",
      acc |-> IF read(4)
              THEN Append(acc, RemoveEnclosed(cells[5], "[", "]"))
              ELSE acc]

\* The rows of the table of sovereign states: the texts of the cells, as
\* value.text gives them.
FoundingRows ==
  { <<>>,
    <<"France\n", "1958">>,
    <<"France", "Europe", "22 September 1792\n[a]", "First Republic">>,
    <<"Japan", "1947 (current constitution)">>,
    <<"Japan", "Asia">>,
    <<"United States [b]", "4 July 1776">>,
    <<"Timor-Leste", "Asia", "restored", "\n">>,
    <<"Korea", "Asia", "Goryeo", "in 918">>,
    <<Sentinel, "">> }

\* str.strip() of blanks.
RECURSIVE StrStrip(_)
StrStrip(s) ==
  IF s = "" THEN ""
  ELSE IF Ch(s, 1) = " " THEN StrStrip(SubSeq(s, 2, Len(s)))
  ELSE IF Ch(s, Len(s)) = " " THEN StrStrip(SubSeq(s, 1, Len(s) - 1))
  ELSE s

\* value.text.split('\n') with the empty strings removed.
CurrentValue(text) == SelectSeq(StrSplit(text, "\n"), LAMBDA l : l # "")

\* bool(re.search(r'\d', s))
HasDigit(s) == \E i \in 1..Len(s) : Ch(s, i) \in Digits

\* potential_nation: the first line of a cell, stripped and without its
\* bracketed notes (the texts here hold no character outside ASCII).
PotentialNation(line) == RemoveEnclosed(StrStrip(line), "[", "]")

\* is_valid_country(term) for a str: the lower-cased term is looked up in
\* every value of _NATION_DICT.
IsValidCountry(term) ==
  \E indx \in DOMAIN NationDict : StrLower(term) \in Aliases(indx)

\* _VALIDATED_CACHE[key] = value on the set of the items of the cache.
CacheSet(cache, key, value) ==
  {item \in cache : item[1] # key} \cup {<<key, value>>}

\* What is_valid_country(term) leaves in the cache for a str: the
\* lower-cased term with the answer.
CacheAfter(cache, term) ==
  CacheSet(cache, StrLower(term), IsValidCountry(term))

\* The cache after is_valid_country has been called with each term of seen:
\* a term asked twice gets the same answer twice.
CacheAfterAll(cache, seen) ==
  LET keys == {StrLower(seen[i]) : i \in 1..Len(seen)}
  IN {item \in cache : item[1] \notin keys}
       \cup {<<StrLower(seen[i]), IsValidCountry(seen[i])>> : i \in 1..Len(seen)}

\* The loop over the cells of one row in
\* nation_founding_date_processing_function, from cell indx on. is_nation
\* is "" for False; tr holds _nation_tracker and _date_tracker; seen lists
\* the terms is_valid_country is called with.
RECURSIVE FoundingCells(_, _, _, _)
FoundingCells(cells, indx, is_nation, tr) ==
  IF indx >= Len(cells) THEN [exc |-> "none", acc |-> tr, seen |-> <<>>]
  ELSE
    LET current_value == CurrentValue(cells[indx + 1])
        continue(t) == FoundingCells(cells, indx + 1, is_nation, t)
        break(t) == [exc |-> "none", acc |-> t, seen |-> <<>>]
        after(term, r) == [r EXCEPT !.seen = <<term>> \o @]
        dated(d) == [tr EXCEPT !.dates = Append(@, d)]
        \* the part of the body that looks for a nation in the cell
        seek(t) ==
          IF current_value = <<>> THEN break(t)
          ELSE LET potential_nation == PotentialNation(current_value[1])
               IN after(StrStrip(potential_nation),
                    IF IsValidCountry(StrStrip(potential_nation))
                    THEN IF ListIn(potential_nation, t.nations) THEN break(t)
                         ELSE LET nation ==
                                    IF StrStrip(potential_nation) = "Cabo Verde"
                                    THEN "Cape Verde" ELSE potential_nation
                              IN FoundingCells(cells, indx + 1, nation,
                                   [t EXCEPT !.nations = Append(@, nation)])
                    ELSE continue(t))
    IN IF is_nation = "" THEN seek(tr)
       ELSE IF is_nation = "Iceland" THEN break(dated("1 July 1845"))
       ELSE IF indx = 1 \/ (indx = 2 /\ is_nation # "China")
            THEN IF current_value # <<>> /\ HasDigit(current_value[1])
                 THEN break(dated(current_value[1]))
                 ELSE continue(tr)
       ELSE IF indx = 3
            THEN IF current_value = <<>>
                 THEN [exc |-> "IndexError", acc |-> tr, seen |-> <<>>]
                 ELSE seek(dated(current_value[1]))
       ELSE continue(tr)

\* The body of the loop over the rows.
FoundingRow(cells, tr) == FoundingCells(cells, 0, "", tr)

\* re.findall('\\d{4}', date): the starts of the runs of four digits.
YearStarts(date) ==
  { i \in 1..(Len(date) - 3) : IsDigits(SubSeq(date, i, i + 3)) }

\* The body of the closing loop of nation_founding_date_processing_function
\* over one pair of nation and date.
FoundingDateRow(pair, acc) ==
  IF pair[1] \in {"Czechia", "Palestine"} THEN [exc |-> "none", acc |-> acc]
  ELSE IF YearStarts(pair[2]) = {} THEN [exc |-> "IndexError", acc |-> acc]
  ELSE LET i == CHOOSE k \in YearStarts(pair[2]) :
                  \A j \in YearStarts(pair[2]) : k <= j
       IN [exc |-> "none",
           acc |-> DictSet(acc, pair[1], SubSeq(pair[2], i, i + 3))]

\* zip(_nation_tracker, _date_tracker): as many pairs as the shorter list has.
Zip(a, b) ==
  [i \in 1..(IF Len(a) < Len(b) THEN Len(a) ELSE Len(b)) |-> <<a[i], b[i]>>]

\* The closing loop over the pairs, and the dictionary it returns.
RECURSIVE FoundingDates(_, _)
FoundingDates(pairs, acc) ==
  IF pairs = <<>> THEN [exc |-> "none", val |-> acc]
  ELSE LET s == FoundingDateRow(Head(pairs), acc)
       IN IF s.exc # "none" THEN [exc |-> s.exc, val |-> <<>>]
          ELSE FoundingDates(Tail(pairs), s.acc)

\* The functions that fetch a page by title.
(***************************************************************************)
(* Dates in the text of a cell                                             *)
(***************************************************************************)
\* The keys of _MONTH_TO_ABBREVIATION, in the order of the months.
MonthNames ==
  <<"January", "February", "March", "April", "May", "June", "July",
    "August", "September", "October", "November", "December">>

\* s holds t from position i on.
StartsAt(s, i, t) ==
  /\ i >= 1
  /\ i + Len(t) - 1 <= Len(s)
  /\ SubSeq(s, i, i + Len(t) - 1) = t

DigitsAt(s, i, n) ==
  /\ i >= 1
  /\ i + n - 1 <= Len(s)
  /\ IsDigits(SubSeq(s, i, i + n - 1))

\* How much of s from position j on matches \s\d{1,2},\s\d{4} (the blank is
\* a space in every text here); 0 if it does not match.
DayYearAt(s, j) ==
  IF StartsAt(s, j, " ") /\ DigitsAt(s, j + 1, 2) /\ StartsAt(s, j + 3, ", ")
     /\ DigitsAt(s, j + 5, 4)
  THEN 9
  ELSE IF StartsAt(s, j, " ") /\ DigitsAt(s, j + 1, 1)
          /\ StartsAt(s, j + 2, ", ") /\ DigitsAt(s, j + 4, 4)
       THEN 8
       ELSE 0

\* How much of s from position i on matches _date_search_pattern: the name
\* of a month, or its first three letters, and day and year; 0 for no match.
DateAt(s, i) ==
  IF \E m \in 1..12 : StartsAt(s, i, SubSeq(MonthNames[m], 1, 3))
  THEN LET m == CHOOSE k \in 1..12 : StartsAt(s, i, SubSeq(MonthNames[k], 1, 3))
           name == MonthNames[m]
       IN IF StartsAt(s, i, name) /\ DayYearAt(s, i + Len(name)) > 0
          THEN Len(name) + DayYearAt(s, i + Len(name))
          ELSE IF DayYearAt(s, i + 3) > 0 THEN 3 + DayYearAt(s, i + 3)
          ELSE 0
  ELSE 0

\* [date.group() for date in re.finditer(_date_search_pattern, s)], from
\* position i on.
RECURSIVE DateGroups(_, _)
DateGroups(s, i) ==
  IF i > Len(s) THEN <<>>
  ELSE IF DateAt(s, i) > 0
       THEN <<SubSeq(s, i, i + DateAt(s, i) - 1)>>
            \o DateGroups(s, i + DateAt(s, i))
       ELSE DateGroups(s, i + 1)

IsLeap(year) == (year % 4 = 0 /\ year % 100 # 0) \/ year % 400 = 0

DaysIn(month, year) ==
  IF month = 2 THEN (IF IsLeap(year) THEN 29 ELSE 28)
  ELSE IF month \in {4, 6, 9, 11} THEN 30 ELSE 31

\* The datetime of one matched date: the pattern is split at the spaces,
\* the commas at the ends are dropped, the month is looked up in
\* _MONTH_TO_ABBREVIATION (KeyError for a month that is abbreviated already)
\* and strptime reads "%b %d %Y" (ValueError for a day the month has not).
ParseDate(date_pattern) ==
  LET parts == StrSplit(date_pattern, " ")
      date_objects ==
        [i \in 1..Len(parts) |->
           IF parts[i] # "" /\ Ch(parts[i], Len(parts[i])) = ","
           THEN SubSeq(parts[i], 1, Len(parts[i]) - 1) ELSE parts[i]]
      known == \E m \in 1..12 : MonthNames[m] = date_objects[1]
      month == CHOOSE m \in 1..12 : MonthNames[m] = date_objects[1]
      day == DigitsValue(date_objects[2])
      year == DigitsValue(date_objects[3])
  IN IF ~known THEN [exc |-> "KeyError", date |-> <<>>]
     ELSE IF year = 0 \/ day = 0 \/ day > DaysIn(month, year)
          THEN [exc |-> "ValueError", date |-> <<>>]
          ELSE [exc |-> "none",
                date |-> [year |-> year, month |-> month, day |-> day]]

\* The datetimes of the matched dates, in their order; the first exception
\* ends the loop.
RECURSIVE ParseDates(_)
ParseDates(groups) ==
  IF groups = <<>> THEN [exc |-> "none", dates |-> <<>>]
  ELSE LET d == ParseDate(Head(groups))
           rest == ParseDates(Tail(groups))
       IN IF d.exc # "none" THEN [exc |-> d.exc, dates |-> <<>>]
          ELSE IF rest.exc # "none" THEN rest
          ELSE [exc |-> "none", dates |-> <<d.date>> \o rest.dates]

\* The rows of the table of the presidents: the first cell holds the term.
OfficeTermRows ==
  { <<>>,
    <<Sentinel, "George Washington">>,
    <<"1", "George Washington">>,
    <<"April 30, 1789 - March 4, 1797[a]", "George Washington">>,
    <<"January 20, 2025 - Incumbent", Sentinel>>,
    <<"May 5, 2021[b] - Incumbent">>,
    <<"Jan 20, 2021 - Incumbent">>,
    <<"February 30, 1841 - April 4, 1841">> }

\* The body of the row loop of us_president_office_term_processing_function:
\* the dates of the first cell are the term, and a term with one date is
\* closed with today.
OfficeTermRow(cells, acc, today) ==
  LET text == StrStrip(cells[1])
      term == RemoveEnclosed(text, "[", "]")
      parsed == ParseDates(DateGroups(term, 1))
  IN IF cells = <<>> \/ text = Sentinel \/ DateGroups(text, 1) = <<>>
     THEN [exc |-> "none", acc |-> acc]
     ELSE IF parsed.exc # "none" THEN [exc |-> parsed.exc, acc |-> acc]
     ELSE [exc |-> "none",
           acc |-> Append(acc,
                     IF Len(parsed.dates) = 1
                     THEN Append(parsed.dates, today) ELSE parsed.dates)]

\* The presidents with the first parenthesised text of their information,
\* which get_presidential_dates zips.
BirthdateRows ==
  { <<"George Washington", "February 22, 1732 - December 14, 1799">>,
    <<"Joe Biden", "born November 20, 1942">>,
    <<"Jimmy Carter", "born Oct 1, 1924">>,
    <<"John Adams", "1735 - 1826">> }

\* The body of the loop of get_presidential_dates over the presidents: the
\* dates of the text are the life, and a life with one date is closed with
\* today. (The years it gathers with the 9999 placeholder go to a dictionary
\* that is not returned.)
PresidentialDatesRow(pair, acc, today) ==
  LET parsed == ParseDates(DateGroups(pair[2], 1))
  IN IF parsed.exc # "none" THEN [exc |-> parsed.exc, acc |-> acc]
     ELSE [exc |-> "none",
           acc |-> DictSet(acc, pair[1],
                     IF Len(parsed.dates) = 1
                     THEN Append(parsed.dates, today) ELSE parsed.dates)]

Extractors ==
  { "get_list_of_executive_orders", "get_gwp_data",
    "us_president_political_parties_processing_function",
    "nation_founding_date_processing_function",
    "us_president_office_term_processing_function",
    "get_presidential_dates" }

RowsOf(fn) ==
  CASE fn = "get_list_of_executive_orders" -> ExecutiveOrderRows
    [] fn = "get_gwp_data" -> GwpRows
    [] fn = "us_president_political_parties_processing_function" ->
         PoliticalPartyRows
    [] fn = "nation_founding_date_processing_function" -> FoundingRows
    [] fn = "us_president_office_term_processing_function" -> OfficeTermRows
    [] fn = "get_presidential_dates" -> BirthdateRows

\* A table of name and year with a row of sources in it.
ScenarioTable ==
  << <<"France\n", "1958">>,
     <<Sentinel, "">>,
     <<"Japan", "1947 (current constitution)">> >>

ScenarioTables(fn) ==
  IF fn \in {"get_gwp_data", "nation_founding_date_processing_function"}
  THEN {ScenarioTable} ELSE {}

Tables(fn) ==
  UNION { [1..n -> RowsOf(fn)] : n \in 0..MaxRows } \cup ScenarioTables(fn)

RowStep(fn, cells, acc) ==
  CASE fn = "get_list_of_executive_orders" -> ExecutiveOrdersRow(cells, acc)
    [] fn = "get_gwp_data" -> GwpRow(cells, acc)
    [] fn = "us_president_political_parties_processing_function" ->
         PoliticalPartiesRow(cells, acc)
    [] fn = "nation_founding_date_processing_function" ->
         FoundingRow(cells, acc)
    [] fn = "us_president_office_term_processing_function" ->
         OfficeTermRow(cells, acc, clock)
    [] fn = "get_presidential_dates" ->
         PresidentialDatesRow(cells, acc, clock)

\* What the loop of an extractor starts from.
InitialAcc(fn) ==
  IF fn = "nation_founding_date_processing_function"
  THEN [nations |-> <<>>, dates |-> <<>>]
  ELSE <<>>

\* What the extractor does once its row loop is through.
Returned(fn, acc) ==
  IF fn = "get_gwp_data" THEN [exc |-> "none", val |-> Reversed(acc)]
  ELSE IF fn = "nation_founding_date_processing_function"
       THEN FoundingDates(Zip(acc.nations, acc.dates), <<>>)
       ELSE [exc |-> "none", val |-> acc]

\* The whole loop of an extractor over a table, from an accumulator on.
RECURSIVE Extract(_, _, _)
Extract(fn, rows, acc) ==
  IF rows = <<>> THEN Returned(fn, acc)
  ELSE LET s == RowStep(fn, Head(rows), acc)
       IN IF s.exc # "none" THEN [exc |-> s.exc, val |-> <<>>]
          ELSE Extract(fn, Tail(rows), s.acc)

(***************************************************************************)
(* The functions that fetch a page by title                                *)
(***************************************************************************)
\* A function has asked wk.page for a title and got the answer p: the
\* answer is kept, an exception ends the function, and otherwise an
\* extractor finds a table on the page.
Fetch(fn, title, w, p, exc) ==
  /\ fetcher' = fn
  /\ asked' = [title |-> title, kind |-> w.kind]
  /\ page' = p.title
  /\ row' = 0
  /\ records' = InitialAcc(fn)
  /\ IF p.exc # "none"
     THEN /\ outcome' = [exc |-> exc, val |-> <<>>]
          /\ table' = <<>>
          /\ step' = "done"
     ELSE IF fn \in Extractors
     THEN /\ \E t \in Tables(fn) : table' = t
          /\ step' = "rows"
          /\ UNCHANGED outcome
     ELSE /\ outcome' = [exc |-> "none", val |-> [text_of |-> p.title]]
          /\ table' = <<>>
          /\ step' = "done"
  /\ UNCHANGED <<validated_cache, clock, prev>>
  /\ UNCHANGED <<loaderVars, queryVars, flagVars>>

\* parse_page_information(term): wk.page(term, auto_suggest = False), a
\* DisambiguationError is turned into a ValueError; the text of the page is
\* returned.
ParsePageInformation(term, w) ==
  /\ step = "idle"
  /\ UNCHANGED policy
  /\ LET p == WkPage(term, FALSE, w)
     IN Fetch("parse_page_information", term, w, p,
              IF p.exc = "DisambiguationError" THEN "ValueError" ELSE p.exc)

\* nation_founding_date_processing_function(term): wk.page(term), which
\* leaves auto_suggest at the True the package defaults to.
NationFoundingDateProcessingFunction(term, w) ==
  /\ step = "idle"
  /\ UNCHANGED policy
  /\ LET p == WkPage(term, TRUE, w)
     IN Fetch("nation_founding_date_processing_function", term, w, p, p.exc)

\* us_president_political_parties_processing_function(term)
UsPresidentPoliticalPartiesProcessingFunction(term, w) ==
  /\ step = "idle"
  /\ UNCHANGED policy
  /\ LET p == WkPage(term, FALSE, w)
     IN Fetch("us_president_political_parties_processing_function", term, w,
              p, p.exc)

\* get_list_of_executive_orders()
GetListOfExecutiveOrders(w) ==
  /\ step = "idle"
  /\ UNCHANGED policy
  /\ LET title == "List of United States federal executive orders"
         p == WkPage(title, FALSE, w)
     IN Fetch("get_list_of_executive_orders", title, w, p, p.exc)

\* get_gwp_data()
GetGwpData(w) ==
  /\ step = "idle"
  /\ UNCHANGED policy
  /\ LET title == "Gross World Product"
         p == WkPage(title, FALSE, w)
     IN Fetch("get_gwp_data", title, w, p, p.exc)

\* What a caller may want for the end of a term that is not over. The
\* functions have no parameter for it: the wish is kept to state what the
\* caller gets.
Policies == {"today", "far_future"}

\* us_president_office_term_processing_function(term)
UsPresidentOfficeTermProcessingFunction(term, w, wanted) ==
  /\ step = "idle"
  /\ policy' = wanted
  /\ LET p == WkPage(term, FALSE, w)
     IN Fetch("us_president_office_term_processing_function", term, w, p,
              p.exc)

\* get_presidential_dates(): the texts are those of the information the
\* loader of the presidents holds, no page is fetched.
GetPresidentialDates(wanted) ==
  /\ step = "idle"
  /\ policy' = wanted
  /\ fetcher' = "get_presidential_dates"
  /\ \E t \in Tables("get_presidential_dates") : table' = t
  /\ row' = 0
  /\ records' = InitialAcc("get_presidential_dates")
  /\ step' = "rows"
  /\ UNCHANGED <<asked, page, outcome, validated_cache, clock, prev>>
  /\ UNCHANGED <<loaderVars, queryVars, flagVars>>

\* An extractor that has read its table.
TableRead ==
  /\ fetcher \in Extractors
  /\ page # NoPage \/ fetcher = "get_presidential_dates"

\* The extractor that ran is called once more and finds the table it found
\* before.
ExtractAgain ==
  /\ step = "done"
  /\ TableRead
  /\ ~prev.ran
  /\ prev' = [ran |-> TRUE, outcome |-> outcome]
  /\ row' = 0
  /\ records' = InitialAcc(fetcher)
  /\ outcome' = NoResult
  /\ step' = "rows"
  /\ UNCHANGED <<fetcher, asked, page, table, validated_cache, clock, policy>>
  /\ UNCHANGED <<loaderVars, queryVars, flagVars>>

\* Midnight: datetime.datetime.today() gives the next day from now on.
Tick ==
  /\ clock.day < StartDay.day + MaxDays
  /\ clock' = [clock EXCEPT !.day = @ + 1]
  /\ UNCHANGED <<fetcher, asked, page, table, row, records, outcome, step,
                 validated_cache, policy, prev>>
  /\ UNCHANGED <<loaderVars, queryVars, flagVars>>

\* What one pass of the row loop with the outcome s does: an exception of
\* the row ends the function, nothing catches it; the cache keeps what
\* is_valid_country was asked.
RowEffect(s) ==
  /\ IF s.exc # "none"
     THEN /\ outcome' = [exc |-> s.exc, val |-> <<>>]
          /\ step' = "done"
          /\ UNCHANGED <<row, records>>
     ELSE /\ records' = s.acc
          /\ row' = row + 1
          /\ UNCHANGED <<outcome, step>>
  /\ validated_cache' =
       IF fetcher = "nation_founding_date_processing_function"
       THEN CacheAfterAll(validated_cache, s.seen)
       ELSE validated_cache

\* One pass of the row loop of the extractor that runs.
ExtractRow ==
  /\ step = "rows"
  /\ row < Len(table)
  /\ RowEffect(RowStep(fetcher, table[row + 1], records))
  /\ UNCHANGED <<fetcher, asked, page, table>>
  /\ UNCHANGED <<clock, policy, prev>>
  /\ UNCHANGED <<loaderVars, queryVars, flagVars>>

\* The row loop is through: the extractor returns what it gathered, or
\* raises in what follows the loop.
ExtractReturn ==
  /\ step = "rows"
  /\ row = Len(table)
  /\ outcome' = Returned(fetcher, records)
  /\ step' = "done"
  /\ UNCHANGED <<fetcher, asked, page, table, row, records>>
  /\ UNCHANGED <<validated_cache, clock, policy, prev>>
  /\ UNCHANGED <<loaderVars, queryVars, flagVars>>

ExtractInit == LoaderIdle /\ QueryIdle /\ ExtractIdle /\ FlagIdle

ExtractNext ==
  \/ \E term \in FetchTerms : \E w \in Worlds(term) :
       ParsePageInformation(term, w)
  \/ \E term \in FetchTerms : \E w \in Worlds(term) :
       NationFoundingDateProcessingFunction(term, w)
  \/ \E term \in FetchTerms : \E w \in Worlds(term) :
       UsPresidentPoliticalPartiesProcessingFunction(term, w)
  \/ \E w \in Worlds("List of United States federal executive orders") :
       GetListOfExecutiveOrders(w)
  \/ \E w \in Worlds("Gross World Product") : GetGwpData(w)
  \/ \E term \in FetchTerms : \E w \in Worlds(term) : \E wanted \in Policies :
       UsPresidentOfficeTermProcessingFunction(term, w, wanted)
  \/ \E wanted \in Policies : GetPresidentialDates(wanted)
  \/ ExtractRow
  \/ ExtractReturn
  \/ ExtractAgain
  \/ Tick

(***************************************************************************)
(* search_multiple_words called on its own                                 *)
(***************************************************************************)
\* How many words a call of search_multiple_words has at most.
MaxWords == 2

\* The words it is called with.
WordPool ==
  { "list", "List", "france", "FRANCE", "korea", "south", "presidents",
    "states", "fr", "kp", "of" }

WordLists == UNION { [1..n -> WordPool] : n \in 1..MaxWords }

\* search_multiple_words(*words)
SearchMultipleWordsCall(words) ==
  /\ pc = "idle"
  /\ call' = [NoCall EXCEPT !.fn = "search_multiple_words", !.args = words]
  /\ result' = [exc |-> "none", val |-> SearchMultipleWords(words)]
  /\ pc' = "done"
  /\ UNCHANGED <<stage, terms, fan, output, searches>>
  /\ UNCHANGED <<loaderVars, extractVars, flagVars>>

SearchNext == \E words \in WordLists : SearchMultipleWordsCall(words)

(***************************************************************************)
(* NationFlagInformationLoader.process_function                            *)
(***************************************************************************)
\* The nations self.founding_dates may hold.
FlagNations == {"France", "United States", "Kyrgyzstan"}

\* The files self.storage_dir may hold.
FlagFiles ==
  {"France.svg", "France.png", "United_States.svg", "United_States.png",
   "Kyrgyzstan.png", "notes.txt"}

\* self.storage_dir, as set by set_external_data.
StorageDir == "/nations/flag_image_storage"

\* os.path.join(a, b)
OsPathJoin(a, b) ==
  IF b # "" /\ Ch(b, 1) = "/" THEN b ELSE a \o "/" \o b

\* The last position of character c in s, 0 if there is none.
RFind(s, c) ==
  IF \E i \in 1..Len(s) : Ch(s, i) = c
  THEN CHOOSE i \in 1..Len(s) :
         Ch(s, i) = c /\ \A j \in (i + 1)..Len(s) : Ch(s, j) # c
  ELSE 0

\* os.path.basename(file)
BaseName(file) == SubSeq(file, RFind(file, "/") + 1, Len(file))

\* os.path.splitext(file)[0] for a file name without a leading dot.
SplitExt(file) ==
  LET name == BaseName(file)
      dot == RFind(name, ".")
  IN IF dot <= 1 THEN file
     ELSE SubSeq(file, 1, Len(file) - (Len(name) - dot + 1))

\* get_base_path_name(file)
GetBasePathName(file) == SplitExt(BaseName(file))

\* str.replace(a, b) for single characters.
RECURSIVE StrReplace(_, _, _)
StrReplace(s, a, b) ==
  IF s = "" THEN ""
  ELSE (IF Ch(s, 1) = a THEN b ELSE Ch(s, 1))
       \o StrReplace(SubSeq(s, 2, Len(s)), a, b)

\* The paths of the files of the directory with the extension, as the
\* loops over os.listdir(storage_dir) gather them.
ImagesOf(files, ext) ==
  {OsPathJoin(StorageDir, item) : item \in {f \in files : EndsWith(f, ext)}}

FlagList(paths) == [type |-> "list", items |-> paths]
FlagDict(paths) ==
  [type |-> "dict", items |-> {<<GetBasePathName(q), q>> : q \in paths}]
FlagRaise(exc) == [exc |-> exc, val |-> [type |-> "none", items |-> {}]]

\* svg_to_png(*paths, delete = True): a path whose png exists is passed
\* over; the others are converted and removed. The files after it and the
\* paths it returns.
SvgToPng(files, paths) ==
  LET turned == {q \in paths :
                   BaseName(SplitExt(q) \o ".png") \notin files}
  IN [files |-> (files \ {BaseName(q) : q \in turned})
                  \cup {BaseName(SplitExt(q) \o ".png") : q \in turned},
      paths |-> {SplitExt(q) \o ".png" : q \in turned}]

\* convert_images() on the files of the directory: the files after it and
\* what it returns.
ConvertImages(files, keys) ==
  LET svg_images == ImagesOf(files, ".svg")
      png_images == ImagesOf(files, ".png")
      kyrgyzstan == OsPathJoin(StorageDir, "Kyrgyzstan.png")
      svg_image_len ==
        Cardinality(svg_images) + (IF kyrgyzstan \in png_images THEN 1 ELSE 0)
      done == SvgToPng(files, svg_images)
  IN IF svg_image_len # Cardinality(keys)
     THEN [files |-> files, ret |-> FlagRaise("ValueError")]
     ELSE [files |-> done.files,
           ret |-> [exc |-> "none",
                    val |-> FlagDict(done.paths \cup {kyrgyzstan})]]

\* The file download_images writes for a nation: the name of the nation
\* with underscores, and the extension of the link to its flag (the flag of
\* Kyrgyzstan is a png).
DownloadedFile(nation) ==
  StrReplace(nation, " ", "_")
    \o (IF nation = "Kyrgyzstan" THEN ".png" ELSE ".svg")

\* download_images() on the files of the directory; fetched is what
\* wk.page(nation, auto_suggest = False) does for the nations: an
\* exception of a page ends the function before a file is written.
DownloadImages(files, keys, fetched) ==
  IF keys # {} /\ fetched # "none"
  THEN [files |-> files, ret |-> FlagRaise(fetched)]
  ELSE ConvertImages(files \cup {DownloadedFile(n) : n \in keys}, keys)

\* process_function(): the three branches on the images the directory
\* holds.
ProcessFlags(files, dates, fetched) ==
  LET svg_images == ImagesOf(files, ".svg")
      png_images == ImagesOf(files, ".png")
      no_png == {f \in files : ~EndsWith(f, ".png")}
      no_image == {f \in no_png : ~EndsWith(f, ".svg")}
  IN IF ~dates.set
     THEN [files |-> files, ret |-> FlagRaise("AttributeError")]
     ELSE IF Cardinality(png_images) = Cardinality(dates.keys)
     THEN [files |-> files,
           ret |-> [exc |-> "none",
                    val |-> FlagList({OsPathJoin(StorageDir, image) :
                                        image \in png_images})]]
     ELSE IF Cardinality(svg_images) = Cardinality(dates.keys)
     THEN ConvertImages(no_png, dates.keys)
     ELSE DownloadImages(no_image, dates.keys, fetched)

NationFlagProcessFunction(fetched) ==
  /\ flag_pc = "idle"
  /\ LET r == ProcessFlags(storage_dir, founding_dates, fetched)
     IN /\ storage_dir' = r.files
        /\ flag_data' = r.ret
  /\ flag_pc' = "done"
  /\ UNCHANGED founding_dates
  /\ UNCHANGED <<loaderVars, queryVars, extractVars>>

\* The directory and the founding dates process_function may find.
FlagInit ==
  /\ LoaderIdle /\ QueryIdle /\ ExtractIdle
  /\ storage_dir \in SUBSET FlagFiles
  /\ founding_dates \in
       {[set |-> FALSE, keys |-> {}]}
         \cup {[set |-> TRUE, keys |-> k] : k \in SUBSET FlagNations}
  /\ flag_data = NoResult
  /\ flag_pc = "idle"

FlagNext ==
  \E fetched \in {"none", "PageError", "DisambiguationError"} :
    NationFlagProcessFunction(fetched)

(***************************************************************************)
(* is_valid_country called on its own                                      *)
(***************************************************************************)
\* The values is_valid_country is called with: str in several letter
\* cases, and values that are no str.
ValidTerms ==
  {[type |-> "str", value |-> t] :
     t \in {"France", "FRANCE", "fr", "Japan", "south korea", "Timor-Leste",
            "TIMOR-LESTE", "East Timor", "east timor", "Atlantis", ""}}
  \cup {[type |-> "NoneType", value |-> "None"], [type |-> "int", value |-> "5"]}

\* _VALIDATED_CACHE[key]
CacheGet(cache, key) == (CHOOSE item \in cache : item[1] = key)[2]

\* is_valid_country(term): term.lower() fails for a value that is no str and
\* False is returned; a str is looked up, the answer is written to the cache
\* and read back from it.
IsValidCountryCall(v) ==
  /\ pc \in {"idle", "done"}
  /\ call' = [NoCall EXCEPT !.fn = "is_valid_country", !.args = v]
  /\ IF v.type # "str"
     THEN /\ result' = [exc |-> "none", val |-> FALSE]
          /\ UNCHANGED validated_cache
     ELSE /\ validated_cache' = CacheAfter(validated_cache, v.value)
          /\ result' = [exc |-> "none",
                        val |-> CacheGet(validated_cache', StrLower(v.value))]
  /\ pc' = "done"
  /\ UNCHANGED <<stage, terms, fan, output, searches>>
  /\ UNCHANGED <<fetcher, asked, page, table, row, records, outcome, step,
                 clock, policy, prev>>
  /\ UNCHANGED <<loaderVars, flagVars>>

ValidNext == \E v \in ValidTerms : IsValidCountryCall(v)

vars == <<loaderVars, queryVars, extractVars, flagVars>>

Init == LoaderStart /\ QueryIdle /\ ExtractIdle /\ FlagIdle

Next == LoaderNext

Spec == Init /\ [][Next]_vars

\* The query layer on its own.
SpecQuery == QueryInit /\ [][QueryNext]_vars

\* The page fetches and the table extractors on their own.
SpecExtract == ExtractInit /\ [][ExtractNext]_vars

\* search_multiple_words on its own.
SpecSearch == QueryInit /\ [][SearchNext]_vars

\* process_function of the flag loader on its own.
SpecFlags == FlagInit /\ [][FlagNext]_vars

\* is_valid_country on its own.
SpecValid == QueryInit /\ [][ValidNext]_vars

TypeOK ==
  /\ status \in [Loaders -> {"unborn", "live", "failed"}]
  /\ is_loaded \in [Loaders -> BOOLEAN]
  /\ data \in [Loaders -> Values \cup {None}]
  /\ \A p \in FilePaths : fs[p] \in Contents
  /\ made \in [Loaders -> 0..1]

(***************************************************************************)
(* Vocabulary of the properties of the loader.                             *)
(***************************************************************************)
\* The step enters a scope of loader l (__enter__ returned).
Entered(l) == stack' = Append(stack, l)

\* The step ends the innermost scope, which is one of loader l (__exit__ ran).
Exited(l) == stack = Append(stack', l)

\* The file at the save location of a constructed loader.
FileOf(l) == fs[save_location[l]]

\* Loader l is constructed and has not resolved its data yet.
Unresolved(l) == status[l] = "live" /\ ~is_loaded[l]

RECURSIVE MadeUpTo(_)
MadeUpTo(n) == IF n = 0 THEN 0 ELSE made[n] + MadeUpTo(n - 1)

\* How often process_function has returned a result, over all loaders.
TotalMade == MadeUpTo(NumLoaders)

\* A complete pickle of object v.
Holds(content, v) == content.exists /\ content.complete /\ content.obj = v

(***************************************************************************)
(* C1  Cache hit.  When a loader created with overwrite=false is entered   *)
(* for the first time and a serialized result exists at its save location, *)
(* the entry returns the deserialized stored value and process_function is *)
(* not invoked, neither by that entry nor by the exit of a scope; the      *)
(* producer runs only for a loader that is unresolved and has overwrite    *)
(* set or no file.                                                         *)
(***************************************************************************)
C1_Step ==
  /\ \A l \in Loaders :
       ( /\ Unresolved(l)
         /\ ~overwrite_data[l]
         /\ FileOf(l).exists /\ FileOf(l).complete
         /\ Entered(l) )
       => /\ last'.op = "load" /\ last'.exc = "none"
          /\ last'.ret = FileOf(l).obj
          /\ data'[l] = FileOf(l).obj
          /\ is_loaded'[l]
          /\ made' = made
          /\ fs' = fs
  /\ \A l \in Loaders : Exited(l) => made' = made /\ last'.op \in {"write", "keep"}
  /\ last'.op = "make" =>
       \E l \in Loaders :
         Unresolved(l) /\ (overwrite_data[l] \/ ~FileOf(l).exists)

C1_CacheHit == [][C1_Step]_vars

\* A scope that was served from the file has been entered and left, and no
\* producer ever ran.
C1_Witness ==
  /\ stack = <<>>
  /\ last.op = "keep"
  /\ TotalMade = 0
  /\ \E l \in Loaders :
       /\ is_loaded[l] /\ ~overwrite_data[l]
       /\ Holds(fs[SharedPath], data[l])

(***************************************************************************)
(* C2  Cache miss or overwrite.  When a loader is entered for the first    *)
(* time and no file exists at its save location or overwrite=true (a file  *)
(* that exists is then not read), process_function is invoked exactly      *)
(* once, its result is what the entry returns and what the loader keeps,   *)
(* and once the scope has exited the save location holds the complete      *)
(* serialization of that result.  The last part is stated of a run in      *)
(* which this is the only production, the result was not modified, the     *)
(* file was not deleted and the dump completed.                            *)
(***************************************************************************)
C2_Entry ==
  \A l \in Loaders :
    ( /\ Unresolved(l)
      /\ overwrite_data[l] \/ ~FileOf(l).exists
      /\ Entered(l) )
    => /\ last'.op = "make" /\ last'.exc = "none"
       /\ made'[l] = made[l] + 1
       /\ \A k \in Loaders \ {l} : made'[k] = made[k]
       /\ last'.ret \in Values
       /\ data'[l] = last'.ret
       /\ got'[l] = last'.ret
       /\ is_loaded'[l]
       /\ fs' = fs

C2_Persisted ==
  \A l \in Loaders :
    ( /\ made[l] = 1
      /\ \A k \in Loaders \ {l} : made[k] = 0
      /\ l \notin OpenLoaders
      /\ ~hist.mutated
      /\ ~hist.deleted
      /\ FileOf(l) # Truncated )
    => Holds(FileOf(l), got[l])

C3_AtMostOnceInTotal ==
  ( /\ hist.fresh
    /\ ~hist.deleted
    /\ \A l \in Loaders : ~overwrite_data[l] )
  => TotalMade <= 1

(***************************************************************************)
(* C3 as amended.  Per loader object process_function returns a result at  *)
(* most once; a loader that has resolved stays resolved, and every later   *)
(* entry on it returns its memoized object without running the producer or *)
(* touching the file.  A loader with overwrite=false produces only when it *)
(* is unresolved and no file exists at the save location at that entry.    *)
(***************************************************************************)
C3_Inv ==
  \A l \in Loaders : made[l] <= 1 /\ (made[l] = 1 => is_loaded[l])

C3_Step ==
  /\ \A l \in Loaders :
       (is_loaded[l] /\ Entered(l))
       => /\ last'.op = "memo" /\ last'.exc = "none"
          /\ last'.ret = data[l]
          /\ data' = data /\ made' = made /\ fs' = fs
  /\ \A l \in Loaders : is_loaded[l] => is_loaded'[l]
  /\ \A l \in Loaders :
       (made'[l] > made[l] /\ ~overwrite_data[l])
       => ~is_loaded[l] /\ ~FileOf(l).exists

C3_AtMostOncePerLoader == [][C3_Step /\ C3_Inv']_vars

\* Two loaders on a fresh key, used one after the other: the first produced,
\* the second was served from the file, and a resolved loader was entered
\* again.
C3_Witness ==
  /\ hist.fresh /\ ~hist.deleted
  /\ TotalMade = 1
  /\ last.op = "memo"
  /\ \A l \in Loaders : status[l] = "live" /\ ~overwrite_data[l] /\ is_loaded[l]

(***************************************************************************)
(* C4  Persist-on-exit rule.  A scope exit writes the backing file if and  *)
(* only if, at exit time, no file exists at the save location or overwrite *)
(* was requested, and what it writes is the loader's data; when a file     *)
(* exists and overwrite=false the exit leaves every file unchanged,        *)
(* whatever happened inside the scope.  No exit touches another path or    *)
(* the loader's fields.                                                    *)
(***************************************************************************)
C4_Step ==
  \A l \in Loaders :
    Exited(l) =>
      LET loc == save_location[l]
          w == ~fs[loc].exists \/ overwrite_data[l] IN
        /\ w => /\ last'.op = "write"
                /\ fs'[loc].exists
                /\ fs'[loc].complete => fs'[loc].obj = data[l]
                /\ last'.exc = "none" => fs'[loc].complete
        /\ ~w => last'.op = "keep" /\ fs' = fs
        /\ \A p \in FilePaths \ {loc} : fs'[p] = fs[p]
        /\ data' = data /\ is_loaded' = is_loaded /\ made' = made

C4_PersistOnExit == [][C4_Step]_vars

\* A scope whose body modified the object ended, the file existed and no
\* overwrite was requested: the file still holds something else.
C4_Witness ==
  /\ stack = <<>>
  /\ last.op = "keep"
  /\ \E l \in Loaders :
       /\ status[l] = "live" /\ ~overwrite_data[l] /\ is_loaded[l]
       /\ data[l] # got[l]
       /\ fs[SharedPath].complete
       /\ fs[SharedPath].obj # data[l]

(***************************************************************************)
(* C5  Cache round-trip, as claimed: for a fresh key, the scope of the     *)
(* loader that produced persists, on exit, exactly what process_function   *)
(* returned, also when the body of the scope modified the object.          *)
(***************************************************************************)
C5_Exit(l) ==
  /\ Exited(l)
  /\ hist.fresh /\ ~hist.deleted
  /\ made[l] = 1
  /\ ~FileOf(l).exists
  /\ last'.exc = "none"

C5_Step ==
  /\ \A l \in Loaders :
       C5_Exit(l) =>
         /\ Holds(fs'[save_location[l]], data[l])
         /\ data[l] = got[l] => Holds(fs'[save_location[l]], got[l])
  /\ \A k \in Loaders :
       ( /\ Unresolved(k) /\ ~overwrite_data[k]
         /\ FileOf(k).exists /\ FileOf(k).complete
         /\ Entered(k) )
       => last'.ret = FileOf(k).obj /\ data'[k] = FileOf(k).obj
                                     /\ got'[k] = FileOf(k).obj

C6_Step ==
  /\ \A l \in Loaders :
       ( /\ status[l] = "unborn" /\ status'[l] # "unborn"
         /\ Len(last'.arg) >= 2
         /\ SubSeq(last'.arg, 1, Len(last'.arg) - 1) \notin ExistingDirs )
       => /\ status'[l] = "failed"
          /\ last'.op = "init" /\ last'.exc = "NotADirectoryError"
          /\ fs' = fs /\ made' = made /\ data' = data
          /\ is_loaded' = is_loaded /\ stack' = stack
          /\ save_location'[l] = NoLoc
  /\ \A l \in Loaders : status[l] = "failed" => status'[l] = "failed"

C6_Inv ==
  \A l \in Loaders :
    status[l] = "failed"
    => /\ l \notin OpenLoaders
       /\ ~is_loaded[l] /\ data[l] = None /\ made[l] = 0
       /\ save_location[l] = NoLoc

C6_StorageUnavailable == [][C6_Step /\ C6_Inv']_vars

\* A construction with a save location in a missing directory has just failed.
C6_Witness ==
  /\ last.op = "init"
  /\ last.exc = "NotADirectoryError"
  /\ last.arg = <<"missing", "flag.pickle">>
  /\ \E l \in Loaders : status[l] = "failed"

(***************************************************************************)
(* C7  No partial write.  Every operation of a loader leaves each file as  *)
(* it was or leaves it holding the complete serialization of the result of *)
(* the loader whose scope ends; when the producer raises during scope      *)
(* entry no file is created or modified and the scope is not entered.      *)
(***************************************************************************)
C7_Step ==
  /\ last'.op # "delete" =>
       \A p \in FilePaths :
         \/ fs'[p] = fs[p]
         \/ \E l \in Loaders : Exited(l) /\ Holds(fs'[p], data[l])
  /\ last'.exc = "ProducerError" => fs' = fs /\ stack' = stack

C7_NoPartialWrite == [][C7_Step]_vars

C8_Step ==
  /\ \A l \in Loaders :
       (Entered(l) /\ ~overwrite_data[l])
       => IF is_loaded[l]
            THEN last'.op = "memo" /\ made' = made /\ last'.ret = data[l]
            ELSE IF FileOf(l).exists
              THEN last'.op = "load" /\ made' = made
              ELSE last'.op = "make" /\ made'[l] = made[l] + 1
  /\ \A l \in Loaders :
       (Exited(l) /\ ~FileOf(l).exists)
       => /\ last'.op = "write"
          /\ fs'[save_location[l]].exists
          /\ last'.exc = "none" => Holds(fs'[save_location[l]], data[l])

Replaced(ts, i, code) == [ts EXCEPT ![i] = code]

\* How often x occurs in a list.
Count(seq, x) == Cardinality({ i \in 1..Len(seq) : seq[i] = x })

\* Two word lists hold the same words, each as often.
SameWords(u, v) ==
  /\ Len(u) = Len(v)
  /\ \A x \in Range(u) \cup Range(v) : Count(u, x) = Count(v, x)

\* A plain search for the terms ts has been made.
Searched(ts) == \E s \in BagToSet(searches) : SameWords(s, PlainWords(ts))

\* The titles the plain searches for ts with each of codes at position i give.
UnionOfResults(ts, i, codes) ==
  UNION { Range(PlainResults(Replaced(ts, i, code))) : code \in codes }

\* An entry point has resolved a query and is done.
Resolved(fn) == pc = "done" /\ call.fn = fn /\ terms # <<>>

(***************************************************************************)
(* C9 -- nation fan-out: when a token of the query equals an alias of a    *)
(* registered nation, list_of_search_results performs one plain search per *)
(* alias in that nation's alias set, each time with the matched token      *)
(* replaced by that alias and the other tokens kept, and returns the union *)
(* of all those results; no alias of the set is skipped.  The matched      *)
(* token is the first token of the query that is an alias; the statement   *)
(* is made of every nation that has it among its aliases.                  *)
(***************************************************************************)
C9_NationFanOut ==
  (Resolved("list_of_search_results") /\ NationMatches(terms) # {}) =>
    LET i == FirstMatch(NationMatches(terms))[1]
    IN \A indx \in DOMAIN NationDict :
         terms[i] \in Aliases(indx) =>
           /\ \A code \in Aliases(indx) : Searched(Replaced(terms, i, code))
           /\ BagCardinality(searches) = Cardinality(Aliases(indx))
           /\ Range(result.val) = UnionOfResults(terms, i, Aliases(indx))

FanLeft(f) == Cardinality(f.unordered) + Len(f.ordered)

\* The length of the longest alias list and replacement list.
LongestFanOut ==
  LET sizes == { Cardinality(NationDict[indx].unordered)
                   + Len(NationDict[indx].appended) : indx \in DOMAIN NationDict }
               \cup { Len(ReplacementQueries[g]) : g \in DOMAIN ReplacementQueries }
  IN CHOOSE n \in sizes : \A k \in sizes : k <= n

(***************************************************************************)
(* C11 -- resolution terminates: every call of list_of_search_results      *)
(* finishes after a bounded number of searches; a fan-out is started at    *)
(* most once per top-level call, and only by _parse_query_for_conditions   *)
(* at the start of the call; every call made inside a fan-out goes         *)
(* straight to one plain search and uses up one entry of the list the      *)
(* fan-out runs over, so no fan-out is nested inside another.              *)
(***************************************************************************)
C11_Step ==
  /\ fan'.depth <= 1
  /\ pc # "parse" => (fan'.depth = fan.depth \/ fan' = NoFan)
  /\ pc = "parse" =>
       /\ pc' \in {"fan", "return"}
       /\ pc' = "fan" =>
            /\ fan.depth = 0
            /\ FanLeft(fan') \in 1..LongestFanOut
            /\ searches' = searches
       /\ pc' = "return" =>
            BagCardinality(searches') = BagCardinality(searches) + 1
  /\ pc = "fan" =>
       /\ pc' \in {"fan", "return"}
       /\ pc' = "return" <=> FanLeft(fan') = 0
       /\ FanLeft(fan') = FanLeft(fan) - 1
       /\ BagCardinality(searches') = BagCardinality(searches) + 1

C11_Bound == BagCardinality(searches) <= stage * LongestFanOut

C11_Terminates == [][C11_Step /\ C11_Bound']_vars

\* list_of_search_results has returned from a fan-out over a list of the
\* greatest length.
C11_Witness ==
  /\ Resolved("list_of_search_results")
  /\ fan.depth = 1
  /\ FanLeft(fan) = 0
  /\ BagCardinality(searches) = LongestFanOut

\* The least of a non-empty set of positions.
First(S) == CHOOSE i \in S : \A j \in S : i <= j

\* The positions of the candidates that hold the hint as a substring, and of
\* those equal to it whatever the case.
HoldingHint(hint, candidates) ==
  { i \in 1..Len(candidates) : StrIn(hint, candidates[i]) }

EqualToHint(hint, candidates) ==
  { i \in 1..Len(candidates) : StrLower(hint) = StrLower(candidates[i]) }

(***************************************************************************)
(* C12 -- hint preference: when process_page is given a hint, the page     *)
(* chosen is the first candidate (in candidate order) that contains the    *)
(* hint as a substring whenever at least one candidate does; only when no  *)
(* candidate contains the hint is the first candidate equal to the hint    *)
(* ignoring case chosen.                                                   *)
(***************************************************************************)
C12_HintPreference ==
  ( /\ Resolved("process_page")
    /\ call.specific_query # ""
    /\ stage = 1
    /\ result.exc = "none" ) =>
    LET holding == HoldingHint(call.specific_query, output)
        equal == EqualToHint(call.specific_query, output)
    IN result.val.processed =
         PyStr(output[First(IF holding # {} THEN holding ELSE equal)])

(***************************************************************************)
(* C13 -- fallback to the first raw result: when no hint is supplied, or a *)
(* hint is supplied but no candidate matches it, process_page passes       *)
(* exactly one page title to the processing function, and that title is    *)
(* the first element of the search result sequence in the order the search *)
(* API returned it.                                                        *)
(***************************************************************************)
C13_FirstRawResult ==
  ( /\ Resolved("process_page")
    /\ result.exc = "none"
    /\ (call.specific_query = "" \/ stage = 2) ) =>
    /\ result.val.processed.type = "str"
    /\ result.val.processed.value = output[1]
    /\ ParseBranch(terms, call.kwargs) = "plain" =>
         result.val.processed.value = PlainResults(terms)[1]

(***************************************************************************)
(* C14 -- resolution failure: when the search returns zero candidates (so  *)
(* that no hint can match), process_page fails with a resolution error and *)
(* the processing function is never called, whether or not a hint was      *)
(* supplied.                                                               *)
(***************************************************************************)
C14_ResolutionFailure ==
  (Resolved("process_page") /\ output = <<>>) => result.exc # "none"

(***************************************************************************)
(* C18 -- tokenization: the tokens of a call are its terms in order, each  *)
(* term with a space replaced by its space-separated tokens, except that a *)
(* registered multi-word query and a term without a space stay one token.  *)
(***************************************************************************)
\* The words joined by single spaces.
RECURSIVE JoinWords(_)
JoinWords(ws) ==
  IF Len(ws) = 1 THEN ws[1]
  ELSE ws[1] \o " " \o JoinWords(Tail(ws))

\* chunk is what one term is to become.
TokensOf(term, chunk) ==
  IF StrIn(" ", term) /\ term \notin Range(AllowedSpacedQueries)
  THEN /\ Len(chunk) >= 2
       /\ \A i \in 1..Len(chunk) : ~StrIn(" ", chunk[i])
       /\ JoinWords(chunk) = term
  ELSE chunk = <<term>>

\* toks is made of one chunk per term, in the order of the terms.
RECURSIVE InChunks(_, _)
InChunks(args, toks) ==
  IF args = <<>> THEN toks = <<>>
  ELSE \E k \in 1..Len(toks) :
         /\ TokensOf(Head(args), SubSeq(toks, 1, k))
         /\ InChunks(Tail(args), SubSeq(toks, k + 1, Len(toks)))

C18_Tokenization == (terms # <<>>) => InChunks(call.args, terms)

\* A query of a registered multi-word term and a term that is split has been
\* tokenized.
C18_Witness ==
  /\ pc = "parse"
  /\ call.args = <<"prime minister", "sovereign states">>
  /\ terms = <<"prime minister", "sovereign", "states">>

(***************************************************************************)
(* C17 -- alias disjointness: no alias is in the alias sets of two         *)
(* distinct entries of the nation dictionary, the short names of the split *)
(* names included, and East Timor and Timor-Leste are two distinct         *)
(* entries.                                                                *)
(***************************************************************************)
\* The entries of the dictionary that hold the alias.
EntriesWith(alias) == { indx \in DOMAIN NationDict : alias \in Aliases(indx) }

\* The dictionary is generated on import; the property is stated of the
\* dictionary every call consults.
C17_AliasDisjointness ==
  (call.fn # "none") =>
  /\ \A i, j \in DOMAIN NationDict :
       i # j => Aliases(i) \cap Aliases(j) = {}
  /\ EntriesWith("East Timor") # {}
  /\ EntriesWith("Timor-Leste") # {}
  /\ EntriesWith("East Timor") \cap EntriesWith("Timor-Leste") = {}

(***************************************************************************)
(* C16 -- alias consistency: for every nation and every two aliases a, b   *)
(* of it, a query with a and the same query with b in its place resolve to *)
(* the same result.                                                        *)
(***************************************************************************)
\* The titles list_of_search_results(*q, **kwargs) answers with: those of the plain
\* searches _parse_query_for_conditions makes for the tokens of q.
Resolution(q, kwargs) ==
  LET tk == Tokenize(q)
      branch == ParseBranch(tk, kwargs)
  IN IF branch = "nation"
     THEN LET m == FirstMatch(NationMatches(tk))
              base == ListRemove(tk, tk[m[1]])
          IN UNION { Range(PlainResults(Append(base, code))) :
                       code \in Aliases(m[2]) }
     ELSE IF branch = "replacement"
     THEN LET m == FirstMatch(ReplacementMatches(tk))
              base == ListRemove(tk, tk[m[1]])
          IN UNION { Range(PlainResults(Append(base, code))) :
                       code \in Range(ReplacementQueries[m[2]]) }
     ELSE Range(PlainResults(tk))

\* The results are compared as sets of titles, whatever their order.
C16_AliasConsistency ==
  Resolved("list_of_search_results") =>
    \A i \in 1..Len(call.args) : \A indx \in DOMAIN NationDict :
      call.args[i] \in Aliases(indx) =>
        \A b \in Aliases(indx) :
          Range(result.val) = Resolution(Replaced(call.args, i, b), call.kwargs)

(***************************************************************************)
(* C15 -- no auto-guess on ambiguity: when the page under the title a      *)
(* function asks for is a disambiguation page, the fetch fails with an     *)
(* error and no page is selected in its place; none of the functions that  *)
(* fetch a page by title takes a hint.                                     *)
(***************************************************************************)
C15_NoAutoGuess ==
  (step # "idle" /\ asked.kind = "disambiguation") =>
    /\ page = NoPage
    /\ step = "done"
    /\ outcome.exc # "none"

(***************************************************************************)
(* Vocabulary of the claims about the table extractors                     *)
(***************************************************************************)
\* An extractor has fetched its page and has returned or raised.
Extracted == step = "done" /\ page # NoPage /\ fetcher \in Extractors

\* The texts of the numeric fields of a row, after cleanup: the cells the
\* extractor converts to a number, where the row has them.
NumericFields(fn, cells) ==
  CASE fn = "get_list_of_executive_orders" ->
         { [text |-> RemoveChar(cells[i], ","),
            type |-> IF i = 4 THEN "int" ELSE "float"] :
             i \in {k \in {4, 6} : k <= Len(cells) /\ cells[k] # Sentinel} }
    [] fn = "get_gwp_data" ->
         { [text |-> GwpParsedItem(cells[i]), type |-> "float"] :
             i \in {k \in {2} : k <= Len(cells) /\ cells[k] # Sentinel} }
    [] OTHER -> {}

\* A numeric field that cannot be parsed.
Unparsable(field) ==
  CASE field.type = "int" -> ~PyInt(field.text).ok
    [] field.type = "float" -> ~PyFloat(field.text).ok

Malformed(fn, cells) == \E field \in NumericFields(fn, cells) : Unparsable(field)

MalformedRows == { i \in 1..Len(table) : Malformed(fetcher, table[i]) }

\* A row with a cell whose text is the sentinel.
HasSentinel(cells) == \E i \in 1..Len(cells) : cells[i] = Sentinel

(***************************************************************************)
(* C19 -- malformed numeric field: when the numeric field of one row of    *)
(* the table cannot be parsed, the extractor returns what it returns for   *)
(* the table without that row: the row is skipped and the extraction does  *)
(* not abort.                                                              *)
(***************************************************************************)
C19_MalformedRowSkipped ==
  (Extracted /\ Cardinality(MalformedRows) = 1) =>
    outcome = Extract(fetcher,
                      SelectSeq(table,
                                LAMBDA cells : ~Malformed(fetcher, cells)),
                      InitialAcc(fetcher))

(***************************************************************************)
(* C20 -- sentinel rows: a row with a cell whose text is 'Sources:',       *)
(* whatever the column, contributes no record: an extractor that returns   *)
(* returns what it returns for the table without the rows that hold the    *)
(* sentinel.                                                               *)
(***************************************************************************)
C20_SentinelRowsExcluded ==
  (Extracted /\ outcome.exc = "none") =>
    outcome = Extract(fetcher,
                      SelectSeq(table, LAMBDA cells : ~HasSentinel(cells)),
                      InitialAcc(fetcher))

(***************************************************************************)
(* C24 -- search_multiple_words: with two or more words it returns the     *)
(* titles of the merged answers of the searches for each word that hold    *)
(* every word, whatever the case, in the order of the merged answers; with *)
(* one word it returns the answer of the search for it as it is.           *)
(***************************************************************************)
\* The title holds every word as a substring, whatever the case.
HoldsEvery(title, words) ==
  \A i \in 1..Len(words) : StrIn(StrLower(words[i]), StrLower(title))

\* kept is made of the elements of all that pass the test, in their order.
RECURSIVE Filtered(_, _, _)
Filtered(kept, all, words) ==
  IF all = <<>> THEN kept = <<>>
  ELSE IF HoldsEvery(Head(all), words)
       THEN /\ kept # <<>>
            /\ Head(kept) = Head(all)
            /\ Filtered(Tail(kept), Tail(all), words)
       ELSE Filtered(kept, Tail(all), words)

C24_SearchFilter ==
  (pc = "done" /\ call.fn = "search_multiple_words") =>
    /\ result.exc = "none"
    /\ IF Len(call.args) = 1
       THEN result.val = WkSearch(call.args[1])
       ELSE Filtered(result.val, MergeQueryResults(call.args), call.args)

\* Two words, a title of the merged answers that is kept (twice, once for
\* each answer it is in) and titles that are dropped.
C24_Witness ==
  /\ pc = "done"
  /\ call.fn = "search_multiple_words"
  /\ call.args = <<"FRANCE", "presidents">>
  /\ result.val = <<"List of presidents of France",
                    "List of presidents of France">>
  /\ Len(MergeQueryResults(call.args)) > 2

(***************************************************************************)
(* C25 -- result uniqueness: the list list_of_search_results returns holds *)
(* no page title twice, with or without a fan-out.                         *)
(***************************************************************************)
C25_ResultUniqueness ==
  (Resolved("list_of_search_results") /\ result.exc = "none") =>
    \A i, j \in 1..Len(result.val) :
      result.val[i] = result.val[j] => i = j

(***************************************************************************)
(* C26 -- bypass guard: list_of_search_results called with bypass = False  *)
(* by a function other than itself and _parse_query_for_conditions raises  *)
(* PermissionError before it tokenizes or searches anything; the calls     *)
(* with bypass = False those two functions make are accepted.              *)
(***************************************************************************)
C26_Step ==
  /\ (pc = "idle" /\ pc' # "idle"
        /\ call'.fn = "list_of_search_results" /\ ~call'.bypass) =>
       /\ result'.exc = "PermissionError"
       /\ pc' = "done"
       /\ terms' = <<>>
       /\ searches' = EmptyBag
  /\ (pc \in {"parse", "fan"} /\ pc' \notin {"parse", "fan"}) =>
       /\ result'.exc # "PermissionError"
       /\ BagCardinality(searches') = BagCardinality(searches) + 1

C26_BypassGuard == [][C26_Step]_vars

\* A call from outside has been refused and nothing has been searched.
C26_Witness ==
  /\ pc = "done"
  /\ call.fn = "list_of_search_results"
  /\ ~call.bypass
  /\ result.exc = "PermissionError"
  /\ searches = EmptyBag

(***************************************************************************)
(* C29 -- construction accepts every valid location: a loader is           *)
(* constructed for every non-empty save location whose containing          *)
(* directory exists, a bare file name (whose containing directory is the   *)
(* current working directory) included; a ValueError is raised for an      *)
(* empty save location only.                                               *)
(***************************************************************************)
\* The directory a save location lies in exists; that of a bare file name
\* is the current working directory, which always does.
ContainingDirExists(loc) == Len(loc) = 1 \/ Dirname(loc) \in ExistingDirs

C29_ValidLocationAccepted ==
  (last.op = "init") =>
    /\ (Len(last.arg) > 0 /\ ContainingDirExists(last.arg)) =>
         last.exc = "none"
    /\ (last.exc = "ValueError") => (Len(last.arg) = 0)

(***************************************************************************)
(* C27 -- nation/date pairing: in nation_founding_date_processing_function *)
(* the nation tracker and the date tracker have the same length after      *)
(* every row, and every nation of the dictionary returned is mapped to the *)
(* year of its own row.                                                    *)
(***************************************************************************)
NationExtraction ==
  /\ fetcher = "nation_founding_date_processing_function"
  /\ page # NoPage

\* The row, read on its own, gives the nation and a date with that year.
OwnRow(cells, nation, year) ==
  LET own == FoundingRow(cells, InitialAcc(fetcher))
  IN /\ own.exc = "none"
     /\ own.acc.nations = <<nation>>
     /\ Len(own.acc.dates) = 1
     /\ FoundingDateRow(<<nation, own.acc.dates[1]>>, <<>>).acc
          = << <<nation, year>> >>

C27_NationDatePairing ==
  NationExtraction =>
    /\ (step = "rows") => Len(records.nations) = Len(records.dates)
    /\ (step = "done" /\ outcome.exc = "none") =>
         \A k \in 1..Len(outcome.val) :
           \E i \in 1..Len(table) :
             OwnRow(table[i], outcome.val[k][1], outcome.val[k][2])

(***************************************************************************)
(* C21 -- extraction scenario: for the table with the rows                 *)
(* ["France", "1958"], ["Sources:", ""] and                                *)
(* ["Japan", "1947 (current constitution)"] the extraction of name and     *)
(* year returns two records, France with 1958 and Japan with 1947, the     *)
(* years as numbers, and raises nothing.                                   *)
(***************************************************************************)
\* The Python type of the value an extractor stores for a name: the founding
\* dates keep the text re.findall gives, the gross world product is the
\* float of the text.
ValueType(fn) ==
  IF fn = "nation_founding_date_processing_function" THEN "str" ELSE "float"

\* The record maps the name to the year as a number.
NameAndYear(record, name, year) ==
  /\ StrStrip(record[1]) = name
  /\ ValueType(fetcher) \in {"int", "float"}
  /\ record[2].ok
  /\ record[2].num = year * record[2].den

C21_Scenario ==
  (step = "done" /\ page # NoPage /\ table = ScenarioTable) =>
    /\ outcome.exc = "none"
    /\ Len(outcome.val) = 2
    /\ \E i, j \in 1..2 :
         /\ NameAndYear(outcome.val[i], "France", 1958)
         /\ NameAndYear(outcome.val[j], "Japan", 1947)

(***************************************************************************)
(* C30 -- is_valid_country is case-insensitive and total: it answers True  *)
(* for every alias stored in the nation dictionary, the manual entries     *)
(* 'East Timor' and 'Timor-Leste' included, in any letter case; it answers *)
(* False and raises nothing for a value that is no str; and a term gets    *)
(* the answer it got in every earlier call.                                *)
(***************************************************************************)
\* The term is a stored alias but for the case of its letters.
StoredAlias(term) ==
  \E indx \in DOMAIN NationDict : \E alias \in Aliases(indx) :
    StrLower(alias) = StrLower(term)

IsValidCountryReturned == call.fn = "is_valid_country" /\ pc = "done"

\* C30: is_valid_country returns a truth value and raises nothing; False
\* for a value that is no str, True for a stored alias in any letter case.
C30_Answer ==
  IsValidCountryReturned =>
    /\ result.exc = "none"
    /\ result.val \in BOOLEAN
    /\ (call.args.type # "str") => (result.val = FALSE)
    /\ (call.args.type = "str" /\ StoredAlias(call.args.value)) =>
         (result.val = TRUE)

\* C30, the earlier calls: a call with a term asked before gives the answer
\* the cache holds for it.
C30_Repeat ==
  (IsValidCountryReturned' /\ call'.args.type = "str") =>
    \A item \in validated_cache :
      (item[1] = StrLower(call'.args.value)) => (result'.val = item[2])

C30_RepeatedCalls == [][C30_Repeat]_vars

(***************************************************************************)
(* C28 -- result shape of the flag loader: in each of its three branches   *)
(* (png images at hand, svg images at hand, nothing at hand)               *)
(* NationFlagInformationLoader.process_function returns a mapping from     *)
(* the nation to the path of the image of its flag.                        *)
(***************************************************************************)
FlagsReturned == flag_pc = "done" /\ flag_data.exc = "none"

C28_FlagResultShape ==
  FlagsReturned =>
    /\ flag_data.val.type = "dict"
    /\ \A item \in flag_data.val.items :
         /\ EndsWith(item[2], ".png")
         /\ GetBasePathName(item[2]) = item[1]

\* The branches that convert images return a mapping.
C28_ConvertedIsMapping ==
  (FlagsReturned /\ flag_data.val.type # "list") =>
    /\ flag_data.val.type = "dict"
    /\ \A item \in flag_data.val.items :
         /\ EndsWith(item[2], ".png")
         /\ GetBasePathName(item[2]) = item[1]

(***************************************************************************)
(* C22 -- extraction determinism: an extraction function that is run twice *)
(* on the same HTML gives the same output twice; neither the clock nor     *)
(* what earlier calls left behind changes it.                              *)
(***************************************************************************)
RanTwice == step = "done" /\ prev.ran

C22_ExtractionDeterminism == RanTwice => (outcome = prev.outcome)

\* The extractors that read the clock.
DateExtractors ==
  {"us_president_office_term_processing_function", "get_presidential_dates"}

\* The extractors that take no date from the clock give the same output
\* twice.
C22_WithoutClock ==
  (RanTwice /\ fetcher \notin DateExtractors) => (outcome = prev.outcome)

(***************************************************************************)
(* C23 -- missing date endpoint: where a row gives the start of a term and *)
(* not its end, the extractor does not choose the end itself: it is today  *)
(* or the far-future sentinel, as the policy of the caller says.           *)
(***************************************************************************)
FarFuture == [year |-> 9999, month |-> 12, day |-> 31]

Endpoint(wanted, today) == IF wanted = "far_future" THEN FarFuture ELSE today

\* The row gives one date only.
OpenEnded(fn, cells) ==
  IF fn = "get_presidential_dates"
  THEN Len(DateGroups(cells[2], 1)) = 1
  ELSE /\ cells # <<>>
       /\ StrStrip(cells[1]) # Sentinel
       /\ Len(DateGroups(RemoveEnclosed(StrStrip(cells[1]), "[", "]"), 1)) = 1

\* The dates gathered for the row that has just been read.
DatesOfRow(fn, cells, acc) ==
  IF fn = "get_presidential_dates"
  THEN (CHOOSE item \in Range(acc) : item[1] = cells[1])[2]
  ELSE acc[Len(acc)]

C23_Step ==
  ( /\ fetcher \in DateExtractors
    /\ step = "rows"
    /\ row' = row + 1
    /\ OpenEnded(fetcher, table[row']) )
  => LET dates == DatesOfRow(fetcher, table[row'], records')
     IN dates[Len(dates)] = Endpoint(policy, clock)

C23_MissingEndpoint == [][C23_Step]_vars

\* With the policy that asks for today the caller gets what it wants.
C23_TodayStep ==
  ( /\ fetcher \in DateExtractors
    /\ step = "rows"
    /\ row' = row + 1
    /\ policy = "today"
    /\ OpenEnded(fetcher, table[row']) )
  => LET dates == DatesOfRow(fetcher, table[row'], records')
     IN dates[Len(dates)] = clock

C23_TodayPolicy == [][C23_TodayStep]_vars
====
